---- MODULE Spec2Model ----
(***************************************************************************)
(* A model of the image assembly pipeline of mkfs.ubifs                    *)
(* (ubifs-utils/mkfs.ubifs/mkfs.ubifs.c): the leaf emitter, the write      *)
(* head, the LEB properties ledger, the index builder and the finalizer.   *)
(*                                                                         *)
(* The builder's globals are the variables.  Every function of the source  *)
(* is an operator from a builder record (the globals, bundled by G) to     *)
(* the builder record after the call; the field "ret" carries the value    *)
(* the C function returns.  One action runs one stage of mkfs().           *)
(***************************************************************************)
EXTENDS Integers, Sequences, FiniteSets, TLC

(***************************************************************************)
(* On-flash constants (ubifs-media.h), named as the source names them.     *)
(***************************************************************************)
UBIFS_INO_NODE_SZ == 160
UBIFS_DATA_NODE_SZ == 48
UBIFS_DENT_NODE_SZ == 56
UBIFS_XENT_NODE_SZ == 56
UBIFS_SB_NODE_SZ == 4096
UBIFS_MST_NODE_SZ == 512
UBIFS_IDX_NODE_SZ == 28
UBIFS_CS_NODE_SZ == 32
UBIFS_SIG_NODE_SZ == 64
UBIFS_BRANCH_SZ == 12
UBIFS_SK_LEN == 8
UBIFS_BLOCK_SIZE == 4096
UBIFS_MIN_COMPR_LEN == 128
UBIFS_MIN_FANOUT == 3
UBIFS_MIN_LEB_SZ == 15360
UBIFS_MIN_LEB_CNT == 17
UBIFS_MIN_LOG_LEBS == 2
UBIFS_MIN_ORPH_LEBS == 1
UBIFS_MIN_LPT_LEBS == 2
UBIFS_SB_LEBS == 1
UBIFS_MST_LEBS == 2
UBIFS_SB_LNUM == 0
UBIFS_MST_LNUM == 1
UBIFS_LOG_LNUM == 3
UBIFS_ROOT_INO == 1
UBIFS_FIRST_INO == 64
MIN_WRITE_SZ == 56
UBIFS_MAX_NODE_SZ == 4256
LPROPS_INDEX == 32

\* key types
UBIFS_INO_KEY == 0
UBIFS_DATA_KEY == 1
UBIFS_DENT_KEY == 2
UBIFS_XENT_KEY == 3

\* compression types
UBIFS_COMPR_NONE == 0
UBIFS_COMPR_LZO == 1
UBIFS_COMPR_ZLIB == 2

\* the C macros ALIGN(x, a) and max_t
ALIGN(x, a) == ((x + a - 1) \div a) * a

Max(a, b) == IF a > b THEN a ELSE b

Min(a, b) == IF a < b THEN a ELSE b

(***************************************************************************)
(* Byte buffers.  A buffer is a sequence of segments that tile it from     *)
(* offset 0: a segment is len bytes that are uninitialised ("uninit", a    *)
(* fresh xmalloc), 0xFF fill ("ff"), zero fill ("zero"), padding written    *)
(* by ubifs_pad ("pad") or the bytes [skip, skip+len) of a node ("node").  *)
(* Adjacent fill of one kind is one segment, so equal bytes are equal      *)
(* buffers.                                                                *)
(***************************************************************************)
NoNode == [type |-> "none"]

\* len bytes of fill, and the first len bytes of a node; BufWrite places them
Fill(kind, len) == [offs |-> 0, kind |-> kind, len |-> len, node |-> NoNode, skip |-> 0]

NodeSeg(node, len) == [offs |-> 0, kind |-> "node", len |-> len, node |-> node, skip |-> 0]

BufLen(buf) == IF buf = <<>> THEN 0 ELSE buf[Len(buf)].offs + buf[Len(buf)].len

Mergeable(a, b) == a.kind = b.kind /\ a.kind \in {"uninit", "ff", "zero"}

\* adjacent fill of one kind becomes one segment
BufNorm(buf) ==
    LET n == Len(buf)
        IsStart(i) == i = 1 \/ ~Mergeable(buf[i - 1], buf[i])
        starts == SelectSeq([i \in 1..n |-> i], IsStart)
        m == Len(starts)
    IN <<>> \o [k \in 1..m |->
                  [buf[starts[k]] EXCEPT !.len = (IF k < m THEN buf[starts[k + 1]].offs
                                                  ELSE BufLen(buf)) - buf[starts[k]].offs]]

\* memcpy/memset of the segment seg to buf + offs
BufWrite(buf, offs, seg) ==
    LET end == offs + seg.len
        Before(g) == g.offs < offs
        After(g) == g.offs + g.len > end
        ClipL(g) == [g EXCEPT !.len = Min(g.offs + g.len, offs) - g.offs]
        ClipR(g) == LET cut == Max(end - g.offs, 0)
                    IN [g EXCEPT !.offs = @ + cut, !.len = @ - cut,
                                 !.skip = IF g.kind = "node" THEN @ + cut ELSE 0]
        l == SelectSeq(buf, Before)
        r == SelectSeq(buf, After)
    IN BufNorm([i \in 1..Len(l) |-> ClipL(l[i])] \o <<[seg EXCEPT !.offs = offs]>>
               \o [i \in 1..Len(r) |-> ClipR(r[i])])

\* memset(buf + offs, 0xff, len)
MemsetFF(buf, offs, len) == IF len <= 0 THEN buf ELSE BufWrite(buf, offs, Fill("ff", len))

\* ubifs_pad(c, buf + offs, pad): a pad node or padding bytes, nothing for pad = 0
ubifs_pad(buf, offs, pad) == IF pad <= 0 THEN buf ELSE BufWrite(buf, offs, Fill("pad", pad))

\* memcpy(buf + offs, node, len)
MemcpyNode(buf, offs, node, len) == BufWrite(buf, offs, NodeSeg(node, len))

(***************************************************************************)
(* The host file system, as stat/readdir/read/llistxattr hand it to the    *)
(* builder.  An entry is one directory entry of the source tree: its name  *)
(* (bytes), its file type, the host inode number and link count lstat      *)
(* reports, the blocks read() returns for a regular file, the length       *)
(* readlink returns, its extended attributes, and for a directory its      *)
(* entries in readdir order and the entries the device table adds to it.   *)
(***************************************************************************)
\* one UBIFS_BLOCK_SIZE chunk of a file: its length, whether it is all zero,
\* and what each compressor makes of it
Block(len, zero, lzo_len, zlib_len) ==
    [len |-> len, zero |-> zero, lzo_ok |-> TRUE, lzo_len |-> lzo_len,
     zlib_ok |-> TRUE, zlib_len |-> zlib_len]

Entry(name, mode, ino, nlink, blocks, link_len, xattrs, entries, devs) ==
    [name |-> name, mode |-> mode, ino |-> ino, nlink |-> nlink, blocks |-> blocks,
     link_len |-> link_len, xattrs |-> xattrs, entries |-> entries, devs |-> devs]

File(name, ino, nlink, blocks) == Entry(name, "reg", ino, nlink, blocks, 0, <<>>, <<>>, <<>>)

FileX(name, ino, blocks, xattrs) == Entry(name, "reg", ino, 1, blocks, 0, xattrs, <<>>, <<>>)

Dir(name, ino, entries, devs) == Entry(name, "dir", ino, 2, <<>>, 0, <<>>, entries, devs)

Symlink(name, ino, nlink, link_len) == Entry(name, "lnk", ino, nlink, <<>>, link_len, <<>>, <<>>, <<>>)

Special(name, mode, ino) == Entry(name, mode, ino, 1, <<>>, 0, <<>>, <<>>, <<>>)

Xattr(name, data_len) == [name |-> name, data_len |-> data_len]

\* an incompressible full block, a compressible full block, a hole
BigBlock == Block(UBIFS_BLOCK_SIZE, FALSE, UBIFS_BLOCK_SIZE + 16, UBIFS_BLOCK_SIZE + 8)

SmallBlock == Block(UBIFS_BLOCK_SIZE, FALSE, 24, 16)

ZeroBlock == Block(UBIFS_BLOCK_SIZE, TRUE, 24, 16)

Blocks(b, n) == <<>> \o [i \in 1..n |-> b]

(***************************************************************************)
(* Bounds of the model.                                                    *)
(***************************************************************************)
\* the largest fanout tried
MaxFanout == 4
\* the largest number of blocks of the file of the one-file trees
MaxBlocks == 6
\* blocks of the big file that fills the main area beyond max_leb_cnt
ManyBlocks == 31
\* blocks of the file whose index spills over a LEB
WrapBlocks == 112
\* the latest call of ubifs_leb_change that may fail
MaxFailAt == 10

(***************************************************************************)
(* The state: the options get_options() leaves behind, the environment     *)
(* (the clock, the random source, the sink's failures), the globals of     *)
(* mkfs.ubifs.c and the fields of struct ubifs_info the builder uses.      *)
(* sink, prepared, leaves and stages record what the builder did: the LEBs *)
(* handed to ubifs_leb_change, the nodes handed to ubifs_prepare_node, the *)
(* entries handed to add_to_index, and the stages of mkfs() that ran, each *)
(* in order.  call is the operation that ran last, with the write head,     *)
(* the ledger and the number of LEBs the sink held when it was called.     *)
(***************************************************************************)
VARIABLES opts, env, pc, err, call,
          head_lnum, head_offs, head_flags, leb_buf,
          idx_list, hash_table, creat_sqnum,
          max_sqnum, highest_inum, main_first, main_lebs, leb_cnt,
          lpt, lst, zroot, gc_lnum, ihead_lnum, ihead_offs, old_idx_sz,
          node_buf, root_st, sink, nwrites, rand_calls, prepared, leaves, stages,
          lscan_lnum, lpt_lnum, lpt_offs, nhead_lnum, nhead_offs, ltab_lnum,
          ltab_offs, lpt_hash, root_idx_hash, mst_hash

vars == <<opts, env, pc, err, call, head_lnum, head_offs, head_flags, leb_buf,
          idx_list, hash_table, creat_sqnum, max_sqnum, highest_inum,
          main_first, main_lebs, leb_cnt, lpt, lst, zroot, gc_lnum,
          ihead_lnum, ihead_offs, old_idx_sz, node_buf, root_st, sink, nwrites,
          rand_calls, prepared, leaves, stages, lscan_lnum, lpt_lnum, lpt_offs,
          nhead_lnum, nhead_offs, ltab_lnum, ltab_offs, lpt_hash, root_idx_hash,
          mst_hash>>

\* the builder record: the globals, the return value of the last call (ret),
\* the out-parameters of the calls that have some (lnum, offs, inum, type,
\* kname_len) and the locals size and nlink of add_directory (dir_size,
\* dir_nlink)
G == [env |-> env, head_lnum |-> head_lnum, head_offs |-> head_offs,
      head_flags |-> head_flags, leb_buf |-> leb_buf, idx_list |-> idx_list,
      hash_table |-> hash_table, creat_sqnum |-> creat_sqnum,
      max_sqnum |-> max_sqnum, highest_inum |-> highest_inum,
      main_first |-> main_first, main_lebs |-> main_lebs, leb_cnt |-> leb_cnt,
      lpt |-> lpt, lst |-> lst, zroot |-> zroot, gc_lnum |-> gc_lnum,
      ihead_lnum |-> ihead_lnum, ihead_offs |-> ihead_offs,
      old_idx_sz |-> old_idx_sz, node_buf |-> node_buf, root_st |-> root_st,
      sink |-> sink, nwrites |-> nwrites,
      rand_calls |-> rand_calls, prepared |-> prepared, leaves |-> leaves,
      lscan_lnum |-> lscan_lnum, lpt_lnum |-> lpt_lnum, lpt_offs |-> lpt_offs,
      nhead_lnum |-> nhead_lnum, nhead_offs |-> nhead_offs,
      ltab_lnum |-> ltab_lnum, ltab_offs |-> ltab_offs, lpt_hash |-> lpt_hash,
      root_idx_hash |-> root_idx_hash, mst_hash |-> mst_hash,
      ret |-> 0, lnum |-> 0, offs |-> 0, inum |-> 0, type |-> 0, kname_len |-> 0,
      dir_size |-> 0, dir_nlink |-> 0]

\* the operation op, called with the argument arg, that returned the builder
\* record s: what the write head, the ledger and the sink were at the call,
\* and the position the call handed out
Called(op, arg, s) ==
    [op |-> op, arg |-> arg, head_lnum |-> head_lnum, head_offs |-> head_offs,
     head_flags |-> head_flags, lst |-> lst, lpt |-> lpt, nsink |-> Len(sink),
     lnum |-> s.lnum, offs |-> s.offs]

NoCall == [op |-> "none"]

\* the globals become those of the builder record s
Becomes(s) ==
    /\ head_lnum' = s.head_lnum /\ head_offs' = s.head_offs
    /\ head_flags' = s.head_flags /\ leb_buf' = s.leb_buf
    /\ idx_list' = s.idx_list /\ hash_table' = s.hash_table
    /\ creat_sqnum' = s.creat_sqnum /\ max_sqnum' = s.max_sqnum
    /\ highest_inum' = s.highest_inum /\ main_first' = s.main_first
    /\ main_lebs' = s.main_lebs /\ leb_cnt' = s.leb_cnt
    /\ lpt' = s.lpt /\ lst' = s.lst /\ zroot' = s.zroot /\ gc_lnum' = s.gc_lnum
    /\ ihead_lnum' = s.ihead_lnum /\ ihead_offs' = s.ihead_offs
    /\ old_idx_sz' = s.old_idx_sz /\ node_buf' = s.node_buf /\ root_st' = s.root_st
    /\ sink' = s.sink /\ nwrites' = s.nwrites
    /\ rand_calls' = s.rand_calls /\ prepared' = s.prepared /\ leaves' = s.leaves
    /\ lscan_lnum' = s.lscan_lnum /\ lpt_lnum' = s.lpt_lnum /\ lpt_offs' = s.lpt_offs
    /\ nhead_lnum' = s.nhead_lnum /\ nhead_offs' = s.nhead_offs
    /\ ltab_lnum' = s.ltab_lnum /\ ltab_offs' = s.ltab_offs
    /\ lpt_hash' = s.lpt_hash /\ root_idx_hash' = s.root_idx_hash
    /\ mst_hash' = s.mst_hash
    /\ UNCHANGED <<opts, env>>

Ret(s, r) == [s EXCEPT !.ret = r]

(***************************************************************************)
(* The target sink and the node codec (libubifs).                          *)
(***************************************************************************)
\* the n-th call of ubifs_leb_change fails
SinkFails(e, n) == e.failAt > 0 /\ n >= e.failAt /\ n < e.failAt + e.failLen

\* ubifs_leb_change(c, lnum, buf, c->leb_size): the LEB reaches the sink, or -EIO
ubifs_leb_change(s, lnum, buf) ==
    IF SinkFails(s.env, s.nwrites + 1)
    THEN [s EXCEPT !.nwrites = @ + 1, !.ret = -5]
    ELSE [s EXCEPT !.nwrites = @ + 1, !.ret = 0,
                   !.sink = Append(@, [lnum |-> lnum, buf |-> buf, len |-> opts.leb_size])]

\* ubifs_leb_change(c, lnum, leb_buf, c->leb_size)
WriteLebBuf(s, lnum) == ubifs_leb_change(s, lnum, s.leb_buf)

\* the CRC-32 of a node of length len with sequence number sqnum, over
\* everything but the CRC field
Crc(sqnum, len) == (sqnum * 31 + len * 7) % 65521

\* next_sqnum that hands out max_sqnum as it stands
next_sqnum_stale(s) == s.max_sqnum

\* next_sqnum(c): ++c->max_sqnum
next_sqnum(s) == s.max_sqnum + 1

\* the node ubifs_prepare_node(c, node, len, pad) leaves in the caller's buffer:
\* the common header gets the length, the next sequence number and the CRC
PreparedNode(s, node, len) ==
    [node EXCEPT !.len = len, !.sqnum = next_sqnum(s), !.crc = Crc(next_sqnum(s), len)]

\* the builder after ubifs_prepare_node(c, node, len, pad)
ubifs_prepare_node(s, node, len) ==
    [s EXCEPT !.max_sqnum = next_sqnum(s),
              !.prepared = Append(@, PreparedNode(s, node, len))]

\* a node as the builder fills it in before the header is prepared
Node(type, f) == [type |-> type, len |-> 0, sqnum |-> 0, crc |-> 0, f |-> f]

\* ubifs_idx_node_sz(c, child_cnt)
ubifs_idx_node_sz(child_cnt) ==
    UBIFS_IDX_NODE_SZ + (UBIFS_BRANCH_SZ + UBIFS_SK_LEN + opts.hash_len) * child_cnt

(***************************************************************************)
(* LEB writes outside the head, and the LEB properties ledger.             *)
(***************************************************************************)
write_empty_leb(s, lnum) ==
    WriteLebBuf([s EXCEPT !.leb_buf = BufWrite(@, 0, Fill("ff", opts.leb_size))], lnum)

\* write_node's buffer: the node, 0xFF up to the 8-byte boundary, padding up
\* to the min. I/O unit, 0xFF up to the end of the LEB
NodeLeb(buf, pn, len) ==
    MemsetFF(ubifs_pad(MemsetFF(MemcpyNode(buf, 0, pn, len), len, ALIGN(len, 8) - len),
                       ALIGN(len, 8), ALIGN(len, opts.min_io_size) - ALIGN(len, 8)),
             ALIGN(len, opts.min_io_size), opts.leb_size - ALIGN(len, opts.min_io_size))

write_node(s, node, len, lnum) ==
    WriteLebBuf([ubifs_prepare_node(s, node, len)
                   EXCEPT !.leb_buf = NodeLeb(@, PreparedNode(s, node, len), len)], lnum)

dead_wm == ALIGN(MIN_WRITE_SZ, opts.min_io_size)

dark_wm == ALIGN(UBIFS_MAX_NODE_SZ, opts.min_io_size)

calc_dark(spc) ==
    IF spc < dark_wm THEN spc
    ELSE IF spc - dark_wm < MIN_WRITE_SZ THEN spc - MIN_WRITE_SZ
    ELSE dark_wm

\* set_lprops once free and dirty are computed; sets counts the times the
\* entry of c->lpt was written
SetLprops(s, i, free, dirty, flags) ==
    [s EXCEPT !.lpt = IF i < s.main_lebs
                      THEN [@ EXCEPT ![i] = [free |-> free, dirty |-> dirty,
                                             flags |-> flags, sets |-> @.sets + 1]]
                      ELSE @,
              !.lst = [@ EXCEPT !.total_free = @ + free,
                                !.total_dirty = @ + dirty,
                                !.idx_lebs = IF flags = LPROPS_INDEX THEN @ + 1 ELSE @,
                                !.total_dead = IF flags # LPROPS_INDEX /\ free + dirty < dead_wm
                                               THEN @ + free + dirty ELSE @,
                                !.total_dark = IF flags # LPROPS_INDEX /\ free + dirty >= dead_wm
                                               THEN @ + calc_dark(free + dirty) ELSE @,
                                !.total_used = IF flags # LPROPS_INDEX
                                               THEN @ + opts.leb_size - (free + dirty)
                                               ELSE @]]

\* set_lprops that takes the free space from the 8-byte boundary, not from
\* the min. I/O unit boundary
set_lprops_free8(s, lnum, offs, flags) ==
    SetLprops(s, lnum - s.main_first,
              opts.leb_size - ALIGN(offs, 8),
              opts.leb_size - (opts.leb_size - ALIGN(offs, 8)) - ALIGN(offs, 8),
              flags)

\* set_lprops(lnum, offs, flags): free = leb_size - ALIGN(offs, a),
\* dirty = leb_size - free - ALIGN(offs, 8), a = max(min_io_size, 8)
set_lprops(s, lnum, offs, flags) ==
    SetLprops(s, lnum - s.main_first,
              opts.leb_size - ALIGN(offs, Max(opts.min_io_size, 8)),
              opts.leb_size - (opts.leb_size - ALIGN(offs, Max(opts.min_io_size, 8)))
              - ALIGN(offs, 8),
              flags)

(***************************************************************************)
(* The write head and the index leaf list.                                 *)
(***************************************************************************)
\* a char * that is NULL
NULL == <<>>

\* ubifs_node_calc_hash: the node's hash when the image is authenticated
ubifs_node_calc_hash(node) == IF opts.hash_len > 0 THEN node.crc + 1 ELSE 0

IdxEntry(key, name, name_len, lnum, offs, len, hash) ==
    [key |-> key, name |-> name, name_len |-> name_len, lnum |-> lnum, offs |-> offs,
     len |-> len, hash |-> hash]

add_to_index(s, key, name, name_len, lnum, offs, len, hash) ==
    [s EXCEPT !.idx_list = Append(@, IdxEntry(key, name, name_len, lnum, offs, len, hash)),
              !.leaves = Append(@, IdxEntry(key, name, name_len, lnum, offs, len, hash)),
              !.ret = 0]

\* flush_nodes' buffer with the padding alone, the rest of it left as it was
HeadLebPadded(buf, offs) ==
    ubifs_pad(buf, offs, ALIGN(offs, opts.min_io_size) - offs)

\* flush_nodes' buffer: padding from the head up to the min. I/O unit, 0xFF
\* up to the end of the LEB
HeadLeb(buf, offs) ==
    MemsetFF(ubifs_pad(buf, offs, ALIGN(offs, opts.min_io_size) - offs),
             ALIGN(offs, opts.min_io_size), opts.leb_size - ALIGN(offs, opts.min_io_size))

\* flush_nodes that starts the next LEB on the LEB it has just written
flush_nodes_same_leb(s) ==
    IF s.ret # 0 THEN s
    ELSE [set_lprops(s, s.head_lnum, s.head_offs, s.head_flags)
            EXCEPT !.head_offs = 0, !.ret = 0]

\* flush_nodes once ubifs_leb_change has returned
flush_nodes_written(s) ==
    IF s.ret # 0 THEN s
    ELSE [set_lprops(s, s.head_lnum, s.head_offs, s.head_flags)
            EXCEPT !.head_lnum = @ + 1, !.head_offs = 0, !.ret = 0]

flush_nodes(s) ==
    IF s.head_offs = 0 THEN Ret(s, 0)
    ELSE flush_nodes_written(WriteLebBuf([s EXCEPT !.leb_buf = HeadLeb(@, s.head_offs)],
                                         s.head_lnum))

\* reserve_space that advances the head by len, not by ALIGN(len, 8)
reserve_space_unaligned(s, len) ==
    IF s.ret # 0 THEN s
    ELSE [s EXCEPT !.lnum = s.head_lnum, !.offs = s.head_offs,
                   !.head_offs = @ + len, !.ret = 0]

\* reserve_space once the head has room; the fields lnum and offs of the
\* builder record are the out-parameters
reserve_space_at(s, len) ==
    IF s.ret # 0 THEN s
    ELSE [s EXCEPT !.lnum = s.head_lnum, !.offs = s.head_offs,
                   !.head_offs = @ + ALIGN(len, 8), !.ret = 0]

\* reserve_space(len, &lnum, &offs)
reserve_space(s, len) ==
    reserve_space_at(IF len > opts.leb_size - s.head_offs THEN flush_nodes(s) ELSE Ret(s, 0),
                     len)

key_type(key) == key[2]

\* memcpy(leb_buf + offs, node, len); memset(leb_buf + offs + len, 0xff, ...)
HeadCopy(buf, offs, pn, len) ==
    MemsetFF(MemcpyNode(buf, offs, pn, len), offs + len, ALIGN(len, 8) - len)

\* add_node once reserve_space has returned; pn is the prepared node
add_node_copy(s, key, name, name_len, pn, len) ==
    IF s.ret # 0 THEN s
    ELSE add_to_index([s EXCEPT !.leb_buf = HeadCopy(@, s.offs, pn, len)],
                      key, name, name_len, s.lnum, s.offs, len, ubifs_node_calc_hash(pn))

add_node(s, key, name, name_len, node, len) ==
    IF (key_type(key) = UBIFS_DENT_KEY \/ key_type(key) = UBIFS_XENT_KEY) /\ name = NULL
    THEN Ret(s, -1)
    ELSE IF ~(key_type(key) = UBIFS_DENT_KEY \/ key_type(key) = UBIFS_XENT_KEY) /\ name # NULL
    THEN Ret(s, -1)
    ELSE add_node_copy(reserve_space(ubifs_prepare_node(s, node, len), len),
                       key, name, name_len, PreparedNode(s, node, len), len)

(***************************************************************************)
(* Keys (key.h) and the compressor front end (compr.c).                    *)
(***************************************************************************)
RECURSIVE SumBytes(_)
SumBytes(name) == IF name = <<>> THEN 0 ELSE Head(name) + SumBytes(Tail(name))

\* c->key_hash(name, len): a hash under which different names may collide;
\* the values 0, 1 and 2 are reserved
key_hash(name) == 3 + (SumBytes(name) % 13)

ino_key_init(inum) == <<inum, UBIFS_INO_KEY, 0>>

data_key_init(inum, block) == <<inum, UBIFS_DATA_KEY, block>>

dent_key_init(inum, name) == <<inum, UBIFS_DENT_KEY, key_hash(name)>>

xent_key_init(inum, name) == <<inum, UBIFS_XENT_KEY, key_hash(name)>>

\* keys_cmp(c, key1, key2)
keys_cmp(k1, k2) ==
    IF k1[1] < k2[1] THEN -1 ELSE IF k1[1] > k2[1] THEN 1
    ELSE IF k1[2] < k2[2] THEN -1 ELSE IF k1[2] > k2[2] THEN 1
    ELSE IF k1[3] < k2[3] THEN -1 ELSE IF k1[3] > k2[3] THEN 1
    ELSE 0

\* what a compressor hands back: its return value, the type and the length
Compr(ret, type, out_len) == [ret |-> ret, type |-> type, out_len |-> out_len]

\* percent = (double)zlib_len / (double)lzo_len; percent *= 100; the test
\* percent > 100 - c->favor_percent.  The two roundings of IEEE 754 double
\* arithmetic are far smaller than 1 / lzo_len, so they decide the test only
\* when zlib_len * 100 = (100 - favor_percent) * lzo_len; the quotient is
\* then the double nearest to (100 - favor_percent) / 100, and its product
\* with 100 is above 100 - favor_percent for the values of PercentAbove and
\* for no other value from 1 to 99.
PercentAbove == {7, 14, 28, 55, 56}

percent_gt(zlib_len, lzo_len, limit) ==
    \/ zlib_len * 100 > limit * lzo_len
    \/ zlib_len * 100 = limit * lzo_len /\ limit \in PercentAbove

\* favor_lzo_compress that takes zlib only when it is better by more than
\* favor_percent
favor_lzo_compress_strict(b) ==
    IF ~b.lzo_ok /\ ~b.zlib_ok THEN Compr(-1, UBIFS_COMPR_NONE, 0)
    ELSE IF b.lzo_ok /\ b.zlib_ok
    THEN IF b.zlib_len * 100 < (100 - opts.favor_percent) * b.lzo_len
         THEN Compr(0, UBIFS_COMPR_ZLIB, b.zlib_len)
         ELSE Compr(0, UBIFS_COMPR_LZO, b.lzo_len)
    ELSE IF ~b.lzo_ok
    THEN Compr(0, UBIFS_COMPR_ZLIB, b.zlib_len)
    ELSE Compr(0, UBIFS_COMPR_LZO, b.lzo_len)

\* favor_lzo_compress: the type and the length chosen, ret # 0 when both fail
favor_lzo_compress(b) ==
    IF ~b.lzo_ok /\ ~b.zlib_ok THEN Compr(-1, UBIFS_COMPR_NONE, 0)
    ELSE IF b.lzo_ok /\ b.zlib_ok
    THEN IF \/ b.lzo_len <= b.zlib_len
            \/ percent_gt(b.zlib_len, b.lzo_len, 100 - opts.favor_percent)
         THEN Compr(0, UBIFS_COMPR_LZO, b.lzo_len)
         ELSE Compr(0, UBIFS_COMPR_ZLIB, b.zlib_len)
    ELSE IF ~b.lzo_ok
    THEN Compr(0, UBIFS_COMPR_ZLIB, b.zlib_len)
    ELSE Compr(0, UBIFS_COMPR_LZO, b.lzo_len)

\* the switch of compress_data over the compressor asked for
Compressed(b, type) ==
    IF opts.favor_lzo THEN favor_lzo_compress(b)
    ELSE IF type = UBIFS_COMPR_LZO THEN Compr(IF b.lzo_ok THEN 0 ELSE -1, type, b.lzo_len)
    ELSE IF type = UBIFS_COMPR_ZLIB THEN Compr(IF b.zlib_ok THEN 0 ELSE -1, type, b.zlib_len)
    ELSE Compr(1, type, 0)

\* compress_data once the compressor has returned r: the data stay as they
\* are when it failed or did not make them shorter
ComprChoice(b, r) ==
    IF r.ret # 0 \/ r.out_len >= b.len THEN Compr(0, UBIFS_COMPR_NONE, b.len) ELSE r

\* compress_data(in_buf, in_len, out_buf, &out_len, type): the type returned
\* and the length left in out_len
compress_data(b, type) ==
    IF b.len < UBIFS_MIN_COMPR_LEN THEN Compr(0, UBIFS_COMPR_NONE, b.len)
    ELSE ComprChoice(b, Compressed(b, type))

(***************************************************************************)
(* The leaf emitter: inodes, extended attributes, directory entries.       *)
(***************************************************************************)
UBIFS_ITYPE_REG == 0
UBIFS_ITYPE_DIR == 1
UBIFS_ITYPE_LNK == 2
UBIFS_ITYPE_BLK == 3
UBIFS_ITYPE_CHR == 4
UBIFS_ITYPE_FIFO == 5
UBIFS_ITYPE_SOCK == 6
UBIFS_COMPR_FL == 1
UBIFS_XATTR_FL == 32
UBIFS_MAX_INO_DATA == 4096

CALC_DENT_SIZE(name_len) == ALIGN(UBIFS_DENT_NODE_SZ + name_len + 1, 8)

CALC_XATTR_BYTES(data_len) == ALIGN(UBIFS_INO_NODE_SZ + data_len + 1, 8)

\* the bytes read() returns for the blocks lo..hi of a file
RECURSIVE SumLen(_, _, _)
SumLen(blocks, lo, hi) ==
    IF lo > hi THEN 0
    ELSE IF lo = hi THEN blocks[lo].len
    ELSE SumLen(blocks, lo, (lo + hi) \div 2) + SumLen(blocks, (lo + hi) \div 2 + 1, hi)

FileSize(blocks) == SumLen(blocks, 1, Len(blocks))

\* lstat(): what the host reports for an entry
lstat(e) == [mode |-> e.mode, nlink |-> e.nlink, size |-> FileSize(e.blocks),
             mtime |-> 0, ino |-> e.ino, dev |-> 0]

\* an inode node as add_inode and add_xattr fill it in
InoNode(inum, creat, size, nlink, mode, mtime, flags, data_len) ==
    Node("ino", [key |-> ino_key_init(inum), creat_sqnum |-> creat, size |-> size,
                 nlink |-> nlink, mode |-> mode, mtime |-> mtime, flags |-> flags,
                 data_len |-> data_len, xattr_cnt |-> 0, xattr_size |-> 0,
                 xattr_names |-> 0])

\* a directory entry or extended attribute entry node
DentNode(type, key, inum, itype, name, cookie) ==
    Node(type, [key |-> key, inum |-> inum, type |-> itype, nlen |-> Len(name),
                name |-> name, cookie |-> cookie])

\* add_xattr, the host inode's counters: host_ino is node_buf; then
\* inum = ++c->highest_inum; creat_sqnum = ++c->max_sqnum
add_xattr_host(s, nlen, data_len) ==
    [s EXCEPT !.node_buf = [@ EXCEPT !.f.xattr_cnt = @ + 1,
                                     !.f.xattr_size = @ + CALC_DENT_SIZE(nlen)
                                                        + CALC_XATTR_BYTES(data_len),
                                     !.f.xattr_names = @ + nlen],
              !.highest_inum = @ + 1,
              !.max_sqnum = @ + 1,
              !.creat_sqnum = s.max_sqnum + 1]

\* add_xattr, the entry node: keyed by the host's inum, naming the new inum
add_xattr_xent(s, inum, name) ==
    add_node(s, xent_key_init(inum, name), name, Len(name),
             DentNode("xent", xent_key_init(inum, name), s.highest_inum, UBIFS_ITYPE_REG,
                      name, 0),
             UBIFS_XENT_NODE_SZ + Len(name) + 1)

\* add_xattr, the inode node of the attribute
add_xattr_ino(s, st, data_len) ==
    IF s.ret # 0 THEN s
    ELSE add_node(s, ino_key_init(s.highest_inum), NULL, 0,
                  InoNode(s.highest_inum, s.creat_sqnum, data_len, 1, "reg", st.mtime,
                          UBIFS_XATTR_FL, data_len),
                  UBIFS_INO_NODE_SZ + data_len)

\* add_xattr(host_ino, st, inum, name, data, data_len)
add_xattr(s, st, inum, name, data_len) ==
    add_xattr_ino(add_xattr_xent(add_xattr_host(s, Len(name), data_len), inum, name),
                  st, data_len)

\* inode_add_xattr: one add_xattr per attribute llistxattr names, from the
\* i-th on; inode_add_xattr_next is the loop once add_xattr has returned
RECURSIVE inode_add_xattr(_, _, _, _, _)
RECURSIVE inode_add_xattr_next(_, _, _, _, _)
inode_add_xattr(s, xattrs, i, st, inum) ==
    IF i > Len(xattrs) THEN Ret(s, 0)
    ELSE inode_add_xattr_next(add_xattr(s, st, inum, xattrs[i].name, xattrs[i].data_len),
                              xattrs, i, st, inum)

inode_add_xattr_next(s, xattrs, i, st, inum) ==
    IF s.ret < 0 THEN Ret(s, -1)
    ELSE inode_add_xattr(s, xattrs, i + 1, st, inum)

\* add_inode once the extended attributes are added: ino is node_buf
add_inode_write(s, inum, data_len) ==
    IF s.ret < 0 THEN s
    ELSE add_node(s, ino_key_init(inum), NULL, 0, s.node_buf, UBIFS_INO_NODE_SZ + data_len)

\* add_inode(st, inum, data, data_len, flags, xattr_path, fctx); xattrs are the
\* attributes of xattr_path, none when it is NULL
add_inode(s, st, inum, data_len, xattrs) ==
    add_inode_write(
        inode_add_xattr(
            [s EXCEPT !.node_buf =
                 InoNode(inum, s.creat_sqnum, st.size, st.nlink, st.mode, st.mtime,
                         IF opts.default_compr # UBIFS_COMPR_NONE THEN UBIFS_COMPR_FL ELSE 0,
                         data_len)],
            xattrs, 1, st, inum),
        inum, data_len)

\* add_dir_inode handed the size of the entries alone
add_dir_inode_entries_only(s, xattrs, inum, size, nlink, st) ==
    add_inode(s, [st EXCEPT !.size = size - UBIFS_INO_NODE_SZ, !.nlink = nlink], inum, 0, xattrs)

add_dir_inode(s, xattrs, inum, size, nlink, st) ==
    add_inode(s, [st EXCEPT !.size = size, !.nlink = nlink], inum, 0, xattrs)

add_dev_inode(s, e, st, inum) == add_inode(s, st, inum, 8, e.xattrs)

add_symlink_inode(s, e, st, inum) ==
    IF e.link_len <= 0 THEN Ret(s, -1)
    ELSE IF e.link_len > UBIFS_MAX_INO_DATA THEN Ret(s, -1)
    ELSE add_inode(s, st, inum, e.link_len, e.xattrs)

\* RAND_bytes: the n-th draw from the random source
RAND_bytes(e, n) == e.rnd * 1000 + n

\* set_dent_cookie(dent): a random cookie under double hashing, else 0
set_dent_cookie(s) ==
    IF opts.double_hash
    THEN [s EXCEPT !.rand_calls = @ + 1, !.node_buf = Node("dent", [cookie |-> RAND_bytes(s.env, s.rand_calls + 1)])]
    ELSE [s EXCEPT !.node_buf = Node("dent", [cookie |-> 0])]

\* add_dent_node once the cookie is set: dent is node_buf
add_dent_node_write(s, dir_inum, name, inum, type) ==
    add_node([s EXCEPT !.node_buf = DentNode("dent", dent_key_init(dir_inum, name), inum,
                                             type, name, s.node_buf.f.cookie),
                       !.kname_len = Len(name)],
             dent_key_init(dir_inum, name), name, Len(name),
             DentNode("dent", dent_key_init(dir_inum, name), inum, type, name,
                      s.node_buf.f.cookie),
             UBIFS_DENT_NODE_SZ + Len(name) + 1)

\* add_dent_node(dir_inum, name, inum, type, fctx, &kname_len)
add_dent_node(s, dir_inum, name, inum, type) ==
    add_dent_node_write(set_dent_cookie(s), dir_inum, name, inum, type)

(***************************************************************************)
(* Link counting, files, directories.                                      *)
(***************************************************************************)
HASH_TABLE_SIZE == 10099

\* hash_table is kept in the order add_multi_linked_files walks it: bucket by
\* bucket, and in a bucket the mapping added last comes first
RECURSIVE BucketPos(_, _, _)
BucketPos(tbl, k, i) ==
    IF i > Len(tbl) \/ (tbl[i].inum % HASH_TABLE_SIZE) >= k THEN i
    ELSE BucketPos(tbl, k, i + 1)

FindMapping(tbl, dev, inum) ==
    {i \in 1..Len(tbl) : tbl[i].dev = dev /\ tbl[i].inum = inum}

\* a fresh mapping goes to the head of its bucket, at position pos of the table
InsertMapping(tbl, dev, inum, pos) ==
    SubSeq(tbl, 1, pos - 1)
    \o <<[dev |-> dev, inum |-> inum, use_inum |-> 0, use_nlink |-> 0,
          path_name |-> NULL, st |-> NULL]>>
    \o SubSeq(tbl, pos, Len(tbl))

\* lookup_inum_mapping(dev, inum): the table, with a fresh mapping if none was there
lookup_inum_mapping(tbl, dev, inum) ==
    IF FindMapping(tbl, dev, inum) # {} THEN tbl
    ELSE InsertMapping(tbl, dev, inum, BucketPos(tbl, inum % HASH_TABLE_SIZE, 1))

\* add_file, one block that is no hole: the data node, cd is what
\* compress_data handed back
add_data_node(s, key, b, cd) ==
    add_node([s EXCEPT !.node_buf = Node("data", [key |-> key, size |-> b.len,
                                                  compr_type |-> cd.type, compr_size |-> 0,
                                                  out_len |-> cd.out_len])],
             key, NULL, 0,
             Node("data", [key |-> key, size |-> b.len, compr_type |-> cd.type,
                           compr_size |-> 0, out_len |-> cd.out_len]),
             UBIFS_DATA_NODE_SZ + cd.out_len)

\* add_file's read loop without the test for holes
RECURSIVE add_file_blocks_all(_, _, _, _, _)
add_file_blocks_all(s, e, inum, lo, hi) ==
    IF lo > hi \/ s.ret # 0 THEN s
    ELSE IF lo < hi
    THEN add_file_blocks_all(add_file_blocks_all(s, e, inum, lo, (lo + hi) \div 2),
                             e, inum, (lo + hi) \div 2 + 1, hi)
    ELSE add_data_node(s, data_key_init(inum, lo - 1), e.blocks[lo],
                       compress_data(e.blocks[lo], opts.default_compr))

\* add_file's read loop with block_no left alone at a hole
RECURSIVE add_file_blocks_packed(_, _, _, _, _)
add_file_blocks_packed(s, e, inum, lo, hi) ==
    IF lo > hi \/ s.ret # 0 THEN s
    ELSE IF lo < hi
    THEN add_file_blocks_packed(add_file_blocks_packed(s, e, inum, lo, (lo + hi) \div 2),
                                e, inum, (lo + hi) \div 2 + 1, hi)
    ELSE IF e.blocks[lo].zero THEN s
    ELSE add_data_node(s, data_key_init(inum, Cardinality({i \in 1..(lo - 1) : ~e.blocks[i].zero})),
                       e.blocks[lo], compress_data(e.blocks[lo], opts.default_compr))

\* add_file's read loop over the blocks lo..hi of the file, split in halves;
\* once a block has failed (ret # 0) the loop is over
RECURSIVE add_file_blocks(_, _, _, _, _)
add_file_blocks(s, e, inum, lo, hi) ==
    IF lo > hi \/ s.ret # 0 THEN s
    ELSE IF lo < hi
    THEN add_file_blocks(add_file_blocks(s, e, inum, lo, (lo + hi) \div 2),
                         e, inum, (lo + hi) \div 2 + 1, hi)
    ELSE IF e.blocks[lo].zero THEN s
    ELSE add_data_node(s, data_key_init(inum, lo - 1), e.blocks[lo],
                       compress_data(e.blocks[lo], opts.default_compr))

\* add_file once the blocks are read: the size check and the inode
add_file_ino(s, e, st, inum) ==
    IF s.ret # 0 THEN s
    ELSE IF FileSize(e.blocks) # st.size THEN Ret(s, -1)
    ELSE add_inode(s, st, inum, 0, e.xattrs)

\* add_file(path_name, st, inum, flags, fctx): the data nodes, then the inode
add_file(s, e, st, inum) ==
    add_file_ino(add_file_blocks(Ret(s, 0), e, inum, 1, Len(e.blocks)), e, st, inum)

ITypeOf(mode) ==
    CASE mode = "reg" -> UBIFS_ITYPE_REG
      [] mode = "chr" -> UBIFS_ITYPE_CHR
      [] mode = "blk" -> UBIFS_ITYPE_BLK
      [] mode = "lnk" -> UBIFS_ITYPE_LNK
      [] mode = "sock" -> UBIFS_ITYPE_SOCK
      [] mode = "fifo" -> UBIFS_ITYPE_FIFO
      [] OTHER -> -1

\* add_non_dir that keeps the inode number of a repeated occurrence allotted
add_non_dir_link_keep(s, e, st, k) ==
    IF s.hash_table[k].use_nlink = 0
    THEN [s EXCEPT !.hash_table[k] = [@ EXCEPT !.use_inum = s.inum, !.use_nlink = 1,
                                               !.path_name = e, !.st = st],
                   !.ret = 0]
    ELSE [s EXCEPT !.hash_table[k] = [@ EXCEPT !.use_nlink = @ + 1, !.st = st],
                   !.inum = s.hash_table[k].use_inum,
                   !.ret = 0]

\* add_non_dir, a file with several links, im is the k-th mapping of the
\* table: the first occurrence lends its inum to the mapping, a later one
\* takes the mapping's inum and returns its own
add_non_dir_link(s, e, st, k) ==
    IF s.hash_table[k].use_nlink = 0
    THEN [s EXCEPT !.hash_table[k] = [@ EXCEPT !.use_inum = s.inum, !.use_nlink = 1,
                                               !.path_name = e, !.st = st],
                   !.ret = 0]
    ELSE [s EXCEPT !.hash_table[k] = [@ EXCEPT !.use_nlink = @ + 1, !.st = st],
                   !.inum = s.hash_table[k].use_inum,
                   !.highest_inum = @ - 1,
                   !.ret = 0]

\* add_non_dir, a file with several links, once lookup_inum_mapping has
\* returned the mapping im
add_non_dir_im(s, e, st) ==
    add_non_dir_link(s, e, st, CHOOSE k \in FindMapping(s.hash_table, st.dev, st.ino) : TRUE)

\* add_non_dir, behind the link counting: creat_sqnum = ++c->max_sqnum and
\* the inode by its file type
add_non_dir_ino(s, e, st) ==
    CASE st.mode = "reg" -> add_file(s, e, st, s.inum)
      [] st.mode \in {"chr", "blk"} -> add_dev_inode(s, e, st, s.inum)
      [] st.mode = "lnk" -> add_symlink_inode(s, e, st, s.inum)
      [] OTHER -> add_inode(s, st, s.inum, 0, <<>>)

\* add_non_dir(path_name, &inum, nlink, &type, st, fctx): s.inum is *inum on
\* entry and on return, s.type is *type on return
add_non_dir(s, e, nlink, st) ==
    IF ITypeOf(st.mode) < 0 THEN Ret(s, -1)
    ELSE IF nlink = 0 /\ st.nlink > 1
    THEN add_non_dir_im([s EXCEPT !.type = ITypeOf(st.mode),
                                  !.hash_table = lookup_inum_mapping(@, st.dev, st.ino)],
                        e, st)
    ELSE add_non_dir_ino([s EXCEPT !.type = ITypeOf(st.mode),
                                   !.max_sqnum = @ + 1,
                                   !.creat_sqnum = s.max_sqnum + 1],
                         e, [st EXCEPT !.nlink = IF nlink # 0 THEN nlink ELSE 1])

\* what add_directory's loops take for the stat of an entry: lstat() for an
\* entry readdir() names, a copy of root_st for one the device table names
EntryStat(s, e, existing) ==
    IF existing THEN lstat(e) ELSE [s.root_st EXCEPT !.mode = e.mode, !.nlink = 1]

\* add_directory(dir_name, dir_inum, st, existing, fctx).  dir_entries is one
\* of its two loops from the i-th entry of list on: the readdir loop
\* (existing) or the loop over the entries the device table adds; size and
\* nlink are the directory's size and link count so far, left in dir_size and
\* dir_nlink when the loop ends.  dir_entry_ino adds the entry's inode,
\* dir_entry_dent its directory entry, dir_entry_next goes round the loop.
RECURSIVE add_directory(_, _, _, _, _)
RECURSIVE dir_entries(_, _, _, _, _, _, _)
RECURSIVE dir_entry_ino(_, _, _, _)
RECURSIVE dir_entry_dent(_, _, _, _, _, _, _)
RECURSIVE dir_entry_next(_, _, _, _, _, _, _)
RECURSIVE add_directory_devs(_, _, _, _, _, _)
RECURSIVE add_directory_ino(_, _, _, _, _, _)

\* the loop of add_directory that does not count the subdirectories
dir_entry_next_flat(s, list, existing, dir_inum, i, size, nlink) ==
    IF s.ret # 0 THEN Ret(s, -1)
    ELSE dir_entries(s, list, existing, dir_inum, i + 1,
                     size + ALIGN(UBIFS_DENT_NODE_SZ + s.kname_len + 1, 8), nlink)

dir_entry_ino(s, e, st, existing) ==
    IF st.mode = "dir"
    THEN [add_directory(s, e, s.inum, st, existing)
            EXCEPT !.inum = s.inum, !.type = UBIFS_ITYPE_DIR]
    ELSE add_non_dir(s, e, 0, st)

dir_entries(s, list, existing, dir_inum, i, size, nlink) ==
    IF i > Len(list) THEN [s EXCEPT !.dir_size = size, !.dir_nlink = nlink, !.ret = 0]
    ELSE IF ~existing /\ list[i].mode = "reg" THEN Ret(s, -1)
    ELSE dir_entry_dent(dir_entry_ino([s EXCEPT !.highest_inum = @ + 1,
                                                !.inum = s.highest_inum + 1],
                                      list[i], EntryStat(s, list[i], existing), existing),
                        list, existing, dir_inum, i, size, nlink)

dir_entry_dent(s, list, existing, dir_inum, i, size, nlink) ==
    IF s.ret # 0 THEN Ret(s, -1)
    ELSE dir_entry_next(add_dent_node(s, dir_inum, list[i].name, s.inum, s.type),
                        list, existing, dir_inum, i, size, nlink)

dir_entry_next(s, list, existing, dir_inum, i, size, nlink) ==
    IF s.ret # 0 THEN Ret(s, -1)
    ELSE dir_entries(s, list, existing, dir_inum, i + 1,
                     size + ALIGN(UBIFS_DENT_NODE_SZ + s.kname_len + 1, 8),
                     IF list[i].mode = "dir" THEN nlink + 1 ELSE nlink)

\* add_directory behind its readdir loop: the device table's entries
add_directory_devs(s, dir, dir_inum, st, existing, dir_creat_sqnum) ==
    IF s.ret # 0 THEN s
    ELSE add_directory_ino(dir_entries(s, dir.devs, FALSE, dir_inum, 1, s.dir_size,
                                       s.dir_nlink),
                           dir, dir_inum, st, existing, dir_creat_sqnum)

\* add_directory that leaves creat_sqnum as the children left it
add_directory_ino_shared(s, dir, dir_inum, st, existing, dir_creat_sqnum) ==
    IF s.ret # 0 THEN s
    ELSE add_dir_inode(s, IF existing THEN dir.xattrs ELSE <<>>,
                       dir_inum, s.dir_size, s.dir_nlink, st)

\* add_directory behind both loops: the directory's inode
add_directory_ino(s, dir, dir_inum, st, existing, dir_creat_sqnum) ==
    IF s.ret # 0 THEN s
    ELSE add_dir_inode([s EXCEPT !.creat_sqnum = dir_creat_sqnum],
                       IF existing THEN dir.xattrs ELSE <<>>,
                       dir_inum, s.dir_size, s.dir_nlink, st)

\* if (err) goto out_free; ... return 0; out_free: ... return -1
ErrToMinus1(s) == IF s.ret # 0 THEN Ret(s, -1) ELSE Ret(s, 0)

add_directory(s, dir, dir_inum, st, existing) ==
    ErrToMinus1(
        add_directory_devs(
            IF existing
            THEN dir_entries([s EXCEPT !.max_sqnum = @ + 1], dir.entries, TRUE, dir_inum, 1,
                             UBIFS_INO_NODE_SZ, 2)
            ELSE [s EXCEPT !.max_sqnum = @ + 1, !.dir_size = UBIFS_INO_NODE_SZ,
                           !.dir_nlink = 2, !.ret = 0],
            dir, dir_inum, st, existing, s.max_sqnum + 1))

\* add_multi_linked_files: the mappings from the i-th on, in table order
RECURSIVE add_multi_linked_files(_, _)
RECURSIVE add_multi_linked_next(_, _)
add_multi_linked_files(s, i) ==
    IF i > Len(s.hash_table) THEN Ret(s, 0)
    ELSE add_multi_linked_next(add_non_dir([s EXCEPT !.inum = s.hash_table[i].use_inum],
                                           s.hash_table[i].path_name,
                                           s.hash_table[i].use_nlink, s.hash_table[i].st),
                               i)

add_multi_linked_next(s, i) ==
    IF s.ret # 0 THEN s ELSE add_multi_linked_files(s, i + 1)

\* root_st taken from the clock though a root directory is given
RootStatClock(s) ==
    [mode |-> "dir", nlink |-> 0, size |-> 0, mtime |-> s.env.now, ino |-> 0, dev |-> 0]

\* root_st: stat(root), or the time of the build when there is no root
RootStat(s) ==
    IF opts.root.present THEN lstat(opts.root.dir)
    ELSE [mode |-> "dir", nlink |-> 0, size |-> 0, mtime |-> s.env.now, ino |-> 0, dev |-> 0]

\* write_data behind add_multi_linked_files
write_data_flush(s) == IF s.ret # 0 THEN s ELSE flush_nodes(s)

\* write_data behind add_directory
write_data_links(s) ==
    IF s.ret # 0 THEN s ELSE write_data_flush(add_multi_linked_files(s, 1))

write_data(s) ==
    write_data_links(add_directory([s EXCEPT !.root_st = RootStat(s), !.head_flags = 0],
                                   opts.root.dir, UBIFS_ROOT_INO, RootStat(s),
                                   opts.root.present))

(***************************************************************************)
(* The index builder.                                                      *)
(***************************************************************************)
\* memcmp over the first clen bytes of two names, from the i-th byte on
RECURSIVE memcmp(_, _, _, _)
memcmp(n1, n2, i, clen) ==
    IF i > clen THEN 0
    ELSE IF n1[i] < n2[i] THEN -1
    ELSE IF n1[i] > n2[i] THEN 1
    ELSE memcmp(n1, n2, i + 1, clen)

\* namecmp_len answering 0 for names of one length
namecmp_len_or_equal(cmp, len1, len2) ==
    IF cmp # 0 THEN cmp
    ELSE IF len1 < len2 THEN -1 ELSE IF len1 > len2 THEN 1 ELSE 0

\* namecmp behind its memcmp: the shorter name first, never 0
namecmp_len(cmp, len1, len2) ==
    IF cmp # 0 THEN cmp
    ELSE IF len1 < len2 THEN -1 ELSE 1

namecmp(e1, e2) ==
    namecmp_len(memcmp(e1.name, e2.name, 1, Min(e1.name_len, e2.name_len)),
                e1.name_len, e2.name_len)

cmp_idx(e1, e2) ==
    IF keys_cmp(e1.key, e2.key) # 0 THEN keys_cmp(e1.key, e2.key) ELSE namecmp(e1, e2)

\* the j-th entry goes before the i-th: cmp_idx says so, or it does not order
\* them and the j-th came first
SortsBefore(list, j, i) ==
    \/ cmp_idx(list[j], list[i]) < 0
    \/ (cmp_idx(list[i], list[j]) >= 0 /\ j < i)

\* the place of every entry in the sorted array
SortRank(list) ==
    <<>> \o [i \in 1..Len(list) |->
               Cardinality({j \in 1..Len(list) : j # i /\ SortsBefore(list, j, i)}) + 1]

\* the array with the entries at their places
SortPlace(list, rank) ==
    <<>> \o [k \in 1..Len(list) |-> list[CHOOSE i \in 1..Len(list) : rank[i] = k]]

\* qsort(idx_ptr, idx_cnt, ..., cmp_idx): an entry goes behind the entries
\* cmp_idx orders before it; entries cmp_idx does not order keep their places
qsort(list) == SortPlace(list, SortRank(list))

\* add_idx_node once reserve_space has returned; pn is the prepared node
add_idx_node_copy(s, pn, len) ==
    IF s.ret # 0 THEN s
    ELSE [s EXCEPT !.leb_buf = HeadCopy(@, s.offs, pn, len),
                   !.old_idx_sz = @ + ALIGN(len, 8),
                   !.zroot = [lnum |-> s.lnum, offs |-> s.offs, len |-> len],
                   !.ret = 0]

add_idx_node(s, node, child_cnt) ==
    add_idx_node_copy(reserve_space(ubifs_prepare_node(s, node, ubifs_idx_node_sz(child_cnt)),
                                    ubifs_idx_node_sz(child_cnt)),
                      PreparedNode(s, node, ubifs_idx_node_sz(child_cnt)),
                      ubifs_idx_node_sz(child_cnt))

\* the child count of the i-th of cnt index nodes over a row of below entries
ChildCnt(i, cnt, below) ==
    IF i = cnt - 1
    THEN IF below % opts.fanout = 0 THEN opts.fanout ELSE below % opts.fanout
    ELSE opts.fanout

\* write_index keeps its locals in the record w: the builder s, the sorted
\* leaves idx_ptr, hashes, child_cnt, the loop counter i, and the shadow
\* position blnum:boffs

\* ubifs_node_calc_hash(c, idx, hashes + i * c->hash_len)
SetHash(hashes, i, h) ==
    IF i + 1 > Len(hashes) THEN Append(hashes, h) ELSE [hashes EXCEPT ![i + 1] = h]

\* an index node as write_index fills it in
IdxNode(child_cnt, level, branches) ==
    Node("idx", [child_cnt |-> child_cnt, level |-> level, branches |-> branches])

Branch(key, lnum, offs, len, hash) ==
    [key |-> key, lnum |-> lnum, offs |-> offs, len |-> len, hash |-> hash]

\* add_idx_node(idx, child_cnt), its return value dropped, and the hash of
\* the node; i++
WriteIdxNode(w, idx, child_cnt, i) ==
    [w EXCEPT !.s = add_idx_node(w.s, idx, child_cnt),
              !.child_cnt = child_cnt,
              !.hashes = SetHash(@, i, ubifs_node_calc_hash(
                                           PreparedNode(w.s, idx, ubifs_idx_node_sz(child_cnt)))),
              !.i = i + 1]

\* the branches of the i-th level 0 index node: the leaves from p on
LeafBranches(idx_ptr, p, child_cnt) ==
    <<>> \o [j \in 1..child_cnt |->
               Branch(idx_ptr[p + j].key, idx_ptr[p + j].lnum, idx_ptr[p + j].offs,
                      idx_ptr[p + j].len, idx_ptr[p + j].hash)]

\* level 0: the index nodes lo..hi of cnt, the loop split in halves
RECURSIVE IndexLevel0(_, _, _, _)
IndexLevel0(w, lo, hi, cnt) ==
    IF lo > hi \/ w.i # lo THEN w
    ELSE IF lo < hi
    THEN IndexLevel0(IndexLevel0(w, lo, (lo + hi) \div 2, cnt), (lo + hi) \div 2 + 1, hi, cnt)
    ELSE WriteIdxNode(w,
                      IdxNode(ChildCnt(lo, cnt, Len(w.idx_ptr)), 0,
                              LeafBranches(w.idx_ptr, lo * opts.fanout,
                                           ChildCnt(lo, cnt, Len(w.idx_ptr)))),
                      ChildCnt(lo, cnt, Len(w.idx_ptr)), lo)

\* the position of the next index node of the level below, of length blen
ShadowStep(w, blen) ==
    IF w.boffs + blen > opts.leb_size
    THEN [w EXCEPT !.blnum = @ + 1, !.boffs = 0]
    ELSE w

\* the branches j.. of the i-th index node of a level above 0; w.brs are the
\* branches filled so far
RECURSIVE IndexBranches(_, _, _, _, _, _, _)
RECURSIVE IndexBranch(_, _, _, _, _, _, _, _)
IndexBranches(w, i, j, child_cnt, bcnt, blast_len, pstep) ==
    IF j >= child_cnt THEN w
    ELSE IndexBranch(ShadowStep(w, IF i * opts.fanout + j = bcnt - 1 THEN blast_len
                                   ELSE ubifs_idx_node_sz(opts.fanout)),
                     i, j, child_cnt, bcnt, blast_len, pstep,
                     IF i * opts.fanout + j = bcnt - 1 THEN blast_len
                     ELSE ubifs_idx_node_sz(opts.fanout))

IndexBranch(w, i, j, child_cnt, bcnt, blast_len, pstep, blen) ==
    IndexBranches([w EXCEPT !.brs = Append(@, Branch(w.idx_ptr[(i * opts.fanout + j) * pstep + 1].key,
                                                     w.blnum, w.boffs, blen,
                                                     w.hashes[i * opts.fanout + j + 1])),
                            !.boffs = @ + ALIGN(blen, 8)],
                  i, j + 1, child_cnt, bcnt, blast_len, pstep)

\* one index node of a level above 0 once its branches are filled in
IndexRowNode(w, i, child_cnt, level) ==
    WriteIdxNode([w EXCEPT !.brs = <<>>], IdxNode(child_cnt, level, w.brs), child_cnt, i)

\* the index nodes lo..hi of one level above 0, the loop split in halves
RECURSIVE IndexRow(_, _, _, _, _, _, _, _)
IndexRow(w, lo, hi, cnt, bcnt, blast_len, level, pstep) ==
    IF lo > hi \/ w.i # lo THEN w
    ELSE IF lo < hi
    THEN IndexRow(IndexRow(w, lo, (lo + hi) \div 2, cnt, bcnt, blast_len, level, pstep),
                  (lo + hi) \div 2 + 1, hi, cnt, bcnt, blast_len, level, pstep)
    ELSE IndexRowNode(IndexBranches(w, lo, 0, ChildCnt(lo, cnt, bcnt), bcnt, blast_len, pstep),
                      lo, ChildCnt(lo, cnt, bcnt), level)

\* cnt = (cnt + c->fanout - 1) / c->fanout; if (cnt == 0) cnt = 1
RowCnt(cnt) ==
    IF (cnt + opts.fanout - 1) \div opts.fanout = 0 THEN 1
    ELSE (cnt + opts.fanout - 1) \div opts.fanout

\* while (cnt > 1): the levels above 0
RECURSIVE IndexLevels(_, _, _, _)
IndexLevels(w, cnt, level, pstep) ==
    IF cnt <= 1 THEN w
    ELSE IndexLevels(IndexRow([w EXCEPT !.i = 0], 0, RowCnt(cnt) - 1, RowCnt(cnt), cnt,
                              ubifs_idx_node_sz(w.child_cnt), level + 1, pstep * opts.fanout),
                     RowCnt(cnt), level + 1, pstep * opts.fanout)

\* cnt = idx_cnt / c->fanout; if (idx_cnt % c->fanout) cnt += 1
Level0Cnt(idx_cnt) ==
    (idx_cnt \div opts.fanout) + (IF idx_cnt % opts.fanout # 0 THEN 1 ELSE 0)

\* write_index that leaves the flags of the head as write_data set them
IndexStartUnflagged(s) ==
    [s |-> s, idx_ptr |-> qsort(s.idx_list),
     hashes |-> <<>>, child_cnt |-> 0, i |-> 0, brs |-> <<>>,
     blnum |-> s.head_lnum, boffs |-> s.head_offs]

\* write_index, its locals before the first loop
IndexStart(s) ==
    [s |-> [s EXCEPT !.head_flags = LPROPS_INDEX], idx_ptr |-> qsort(s.idx_list),
     hashes |-> <<>>, child_cnt |-> 0, i |-> 0, brs |-> <<>>,
     blnum |-> s.head_lnum, boffs |-> s.head_offs]

\* write_index behind its loops: the root's hash, the index head, the last
\* index LEB
write_index_end(w) ==
    flush_nodes([w.s EXCEPT !.idx_list = <<>>,
                            !.root_idx_hash = IF opts.hash_len > 0 THEN w.hashes[1] ELSE @,
                            !.ihead_lnum = w.s.head_lnum,
                            !.ihead_offs = ALIGN(w.s.head_offs, opts.min_io_size)])

write_index(s) ==
    write_index_end(IndexLevels(IndexLevel0(IndexStart(s), 0, Level0Cnt(Len(s.idx_list)) - 1,
                                            Level0Cnt(Len(s.idx_list))),
                                Level0Cnt(Len(s.idx_list)), 0, 1))

(***************************************************************************)
(* The finalizer: GC LEB, LEB count, LPT, master, superblock, log, orphans.*)
(***************************************************************************)
\* set_gc_lnum that counts the GC LEB as empty and leaves the rest of the
\* ledger alone
set_gc_lnum_count_only(s) ==
    IF s.ret # 0 THEN s
    ELSE [s EXCEPT !.lst.empty_lebs = @ + 1, !.ret = 0]

\* set_gc_lnum once write_empty_leb has returned
set_gc_lnum_lprops(s) ==
    IF s.ret # 0 THEN s
    ELSE [set_lprops(s, s.gc_lnum, 0, 0) EXCEPT !.lst.empty_lebs = @ + 1, !.ret = 0]

\* set_gc_lnum that leaves the head on the GC LEB
set_gc_lnum_stay(s) ==
    set_gc_lnum_lprops(write_empty_leb([s EXCEPT !.gc_lnum = s.head_lnum], s.head_lnum))

\* c->gc_lnum = head_lnum++
set_gc_lnum(s) ==
    set_gc_lnum_lprops(write_empty_leb([s EXCEPT !.gc_lnum = s.head_lnum,
                                                 !.head_lnum = @ + 1],
                                       s.head_lnum))

\* finalize_leb_cnt without the check against max_leb_cnt
finalize_leb_cnt_unchecked(s) ==
    [s EXCEPT !.leb_cnt = s.head_lnum,
              !.main_lebs = s.head_lnum - s.main_first,
              !.ret = 0]

finalize_leb_cnt(s) ==
    IF s.head_lnum > opts.max_leb_cnt
    THEN [s EXCEPT !.leb_cnt = s.head_lnum, !.ret = -1]
    ELSE [s EXCEPT !.leb_cnt = s.head_lnum,
                   !.main_lebs = s.head_lnum - s.main_first,
                   !.ret = 0]

\* the LPT area ubifs_calc_dflt_lpt_geom gives the small volumes of the model
lpt_lebs == UBIFS_MIN_LPT_LEBS

lpt_first == UBIFS_LOG_LNUM + opts.log_lebs

lpt_last == lpt_first + lpt_lebs - 1

\* the bytes of the pnodes, nnodes and the ltab of a tree over lp_cnt LEBs
lpt_sz(lp_cnt) == 16 * ((lp_cnt + 3) \div 4) + 16 + 8 * lpt_lebs

\* the tree ubifs_create_lpt packs: the properties of the LEBs 0..lp_cnt-1
LptTree(lps, lp_cnt) ==
    [type |-> "lpt", len |-> lpt_sz(lp_cnt), sqnum |-> 0, crc |-> 0,
     f |-> [lprops |-> [i \in 0..(lp_cnt - 1) |->
                           [free |-> lps[i].free, dirty |-> lps[i].dirty,
                            flags |-> lps[i].flags]]]]

\* ubifs_create_lpt once the tree is written: where its parts are
ubifs_create_lpt_done(s, lp_cnt) ==
    IF s.ret # 0 THEN s
    ELSE [s EXCEPT !.lpt_lnum = lpt_first,
                   !.lpt_offs = lpt_sz(lp_cnt) - 16 - 8 * lpt_lebs,
                   !.ltab_lnum = lpt_first,
                   !.ltab_offs = lpt_sz(lp_cnt) - 8 * lpt_lebs,
                   !.nhead_lnum = lpt_first,
                   !.nhead_offs = ALIGN(lpt_sz(lp_cnt), opts.min_io_size),
                   !.lpt_hash = IF opts.hash_len > 0 THEN lpt_sz(lp_cnt) + lp_cnt ELSE @,
                   !.ret = 0]

\* ubifs_create_lpt(c, lps, lp_cnt, hash, free_ltab): the tree goes to the
\* first LEB of the LPT area in one write
ubifs_create_lpt(s, lps, lp_cnt) ==
    ubifs_create_lpt_done(
        ubifs_leb_change(s, lpt_first,
                         MemcpyNode(<<Fill("ff", opts.leb_size)>>, 0, LptTree(lps, lp_cnt),
                                    lpt_sz(lp_cnt))),
        lp_cnt)

\* for (; lnum <= last; lnum++) write_empty_leb(lnum), the loop of write_lpt,
\* write_log and write_orphan_area
RECURSIVE write_empty_lebs(_, _, _)
RECURSIVE write_empty_lebs_next(_, _, _)
write_empty_lebs(s, lnum, last) ==
    IF lnum > last THEN Ret(s, 0)
    ELSE write_empty_lebs_next(write_empty_leb(s, lnum), lnum, last)

write_empty_lebs_next(s, lnum, last) ==
    IF s.ret # 0 THEN s ELSE write_empty_lebs(s, lnum + 1, last)

\* write_lpt once ubifs_create_lpt has returned
write_lpt_rest(s) ==
    IF s.ret # 0 THEN s ELSE write_empty_lebs(s, s.nhead_lnum + 1, lpt_last)

write_lpt(s) ==
    write_lpt_rest(ubifs_create_lpt([s EXCEPT !.lscan_lnum = s.main_first], s.lpt,
                                    s.main_lebs))

\* ubifs_master_node_calc_hash: over the node behind its common header
ubifs_master_node_calc_hash(mst) ==
    mst.f.highest_inum + mst.f.root_lnum + mst.f.root_offs + mst.f.gc_lnum +
    mst.f.index_size + mst.f.leb_cnt + 1

\* the master node as write_master fills it in
MstNode(s) ==
    Node("mst",
         [log_lnum |-> UBIFS_LOG_LNUM, highest_inum |-> s.highest_inum,
          cmt_no |-> 0, root_lnum |-> s.zroot.lnum, root_offs |-> s.zroot.offs,
          root_len |-> s.zroot.len, gc_lnum |-> s.gc_lnum,
          ihead_lnum |-> s.ihead_lnum, ihead_offs |-> s.ihead_offs,
          index_size |-> s.old_idx_sz, lpt_lnum |-> s.lpt_lnum,
          lpt_offs |-> s.lpt_offs, nhead_lnum |-> s.nhead_lnum,
          nhead_offs |-> s.nhead_offs, ltab_lnum |-> s.ltab_lnum,
          ltab_offs |-> s.ltab_offs, lsave_lnum |-> 0, lsave_offs |-> 0,
          lscan_lnum |-> s.lscan_lnum, empty_lebs |-> s.lst.empty_lebs,
          idx_lebs |-> s.lst.idx_lebs, total_free |-> s.lst.total_free,
          total_dirty |-> s.lst.total_dirty, total_used |-> s.lst.total_used,
          total_dead |-> s.lst.total_dead, total_dark |-> s.lst.total_dark,
          leb_cnt |-> s.leb_cnt,
          hash_root_idx |-> IF opts.hash_len > 0 THEN s.root_idx_hash ELSE 0,
          hash_lpt |-> IF opts.hash_len > 0 THEN s.lpt_hash ELSE 0])

\* write_master once the second copy is written: the hash of the master
write_master_hash(s, mst) ==
    IF s.ret # 0 THEN s
    ELSE [s EXCEPT !.mst_hash = IF opts.hash_len > 0
                                THEN ubifs_master_node_calc_hash(mst) ELSE @,
                   !.ret = 0]

\* write_master with the second copy written from the bytes of the first
write_master_copy_same(s, mst) ==
    IF s.ret # 0 THEN s
    ELSE write_master_hash(WriteLebBuf(s, UBIFS_MST_LNUM + 1), mst)

\* write_master once the first copy is written: the second copy
write_master_copy(s, mst) ==
    IF s.ret # 0 THEN s
    ELSE write_master_hash(write_node(s, mst, UBIFS_MST_NODE_SZ, UBIFS_MST_LNUM + 1), mst)

\* write_master with the inode counter as init() left it
write_master_first_ino(s) ==
    write_master_copy(write_node(s, MstNode([s EXCEPT !.highest_inum = UBIFS_FIRST_INO]),
                                 UBIFS_MST_NODE_SZ, UBIFS_MST_LNUM),
                      MstNode([s EXCEPT !.highest_inum = UBIFS_FIRST_INO]))

write_master(s) ==
    write_master_copy(write_node(s, MstNode(s), UBIFS_MST_NODE_SZ, UBIFS_MST_LNUM),
                      MstNode(s))

ubifs_format_version == IF opts.double_hash THEN 5 ELSE 4

\* the length of the signature ubifs_sign_superblock_node leaves in the
\* signature node of an authenticated image
SigLen == IF opts.hash_len > 0 THEN 8 ELSE 0

\* the superblock node as write_super fills it in
SupNode(s) ==
    Node("sb",
         [min_io_size |-> opts.min_io_size, leb_size |-> opts.leb_size,
          leb_cnt |-> s.leb_cnt, max_leb_cnt |-> opts.max_leb_cnt,
          log_lebs |-> opts.log_lebs, lpt_lebs |-> lpt_lebs,
          orph_lebs |-> opts.orph_lebs, jhead_cnt |-> 1,
          fanout |-> opts.fanout, fmt_version |-> ubifs_format_version,
          default_compr |-> opts.default_compr, uuid |-> s.env.uuid,
          double_hash |-> opts.double_hash,
          authenticated |-> opts.hash_len > 0,
          hash_mst |-> IF opts.hash_len > 0 THEN s.mst_hash ELSE 0])

\* the signature node behind the superblock node
SigNode == Node(IF opts.hash_len > 0 THEN "sig" ELSE "blank", [sig_len |-> SigLen])

\* write_super's buffer: zeroes, the superblock node, the signature node,
\* padding up to the min. I/O unit, 0xFF up to the end of the LEB
SuperLeb(psup, psig, slen) ==
    MemsetFF(ubifs_pad(MemcpyNode(MemcpyNode(<<Fill("zero", opts.leb_size)>>, 0, psup,
                                             UBIFS_SB_NODE_SZ),
                                  UBIFS_SB_NODE_SZ, psig, slen),
                       UBIFS_SB_NODE_SZ + ALIGN(slen, 8),
                       ALIGN(ALIGN(slen, 8), opts.min_io_size) - ALIGN(slen, 8)),
             UBIFS_SB_NODE_SZ + ALIGN(ALIGN(slen, 8), opts.min_io_size),
             opts.leb_size - (UBIFS_SB_NODE_SZ + ALIGN(ALIGN(slen, 8), opts.min_io_size)))

\* write_super once the superblock node is prepared: the signature node is
\* prepared and the LEB written
write_super_sig(s, psup) ==
    ubifs_leb_change(ubifs_prepare_node(s, SigNode, UBIFS_SIG_NODE_SZ + SigLen),
                     UBIFS_SB_LNUM,
                     SuperLeb(psup, PreparedNode(s, SigNode, UBIFS_SIG_NODE_SZ + SigLen),
                              UBIFS_SIG_NODE_SZ + SigLen))

write_super(s) ==
    write_super_sig(ubifs_prepare_node(s, SupNode(s), UBIFS_SB_NODE_SZ),
                    PreparedNode(s, SupNode(s), UBIFS_SB_NODE_SZ))

\* write_log once the commit start node is written
write_log_rest(s) ==
    IF s.ret # 0 THEN s
    ELSE write_empty_lebs(s, UBIFS_LOG_LNUM + 1, UBIFS_LOG_LNUM + opts.log_lebs - 1)

write_log(s) ==
    write_log_rest(write_node(s, Node("cs", [cmt_no |-> 0]), UBIFS_CS_NODE_SZ, UBIFS_LOG_LNUM))

write_orphan_area(s) ==
    write_empty_lebs(s, UBIFS_LOG_LNUM + opts.log_lebs + lpt_lebs,
                     UBIFS_LOG_LNUM + opts.log_lebs + lpt_lebs + opts.orph_lebs - 1)

\* what xmalloc leaves in an entry of c->lpt: nothing the builder reads
\* before set_lprops has written the entry
NoLprops == [free |-> -1, dirty |-> -1, flags |-> -1, sets |-> 0]

\* init(), the main area: what is left of max_leb_cnt behind the other areas
MainLebs ==
    opts.max_leb_cnt - UBIFS_SB_LEBS - UBIFS_MST_LEBS - (opts.log_lebs + opts.orph_lebs)
    - lpt_lebs

MainFirst == UBIFS_LOG_LNUM + opts.log_lebs + lpt_lebs + opts.orph_lebs

init(s) ==
    [s EXCEPT !.highest_inum = UBIFS_FIRST_INO,
              !.main_lebs = MainLebs,
              !.main_first = MainFirst,
              !.head_lnum = MainFirst,
              !.head_offs = 0,
              !.lpt = [i \in 0..(MainLebs - 1) |-> NoLprops],
              !.leb_buf = <<Fill("uninit", opts.leb_size)>>,
              !.hash_table = <<>>,
              !.ret = 0]

(***************************************************************************)
(* The source trees, the configurations and the environments of the model. *)
(***************************************************************************)
\* a last block shorter than UBIFS_MIN_COMPR_LEN
ShortBlock == Block(100, FALSE, 60, 50)

\* a block zlib packs much better than lzo
ZlibBlock == Block(UBIFS_BLOCK_SIZE, FALSE, 2000, 1000)

EmptyTree == Dir(<<>>, 2, <<>>, <<>>)

\* files of one block and of MaxBlocks blocks, a hole, a subdirectory, a
\* symlink, a device node, a fifo, a file with extended attributes
SmallTree ==
    Dir(<<>>, 2,
        <<File(<<1>>, 10, 1, <<SmallBlock>>),
          Dir(<<2>>, 11,
              <<File(<<1>>, 12, 1, <<BigBlock, ZeroBlock, ZlibBlock, ShortBlock>>),
                Dir(<<3, 3>>, 16, <<>>, <<>>)>>, <<>>),
          Symlink(<<3>>, 13, 1, 5),
          Special(<<4>>, "chr", 14),
          FileX(<<5>>, 15, Blocks(SmallBlock, MaxBlocks), <<Xattr(<<9>>, 4), Xattr(<<9, 1>>, 0)>>),
          Special(<<1, 2>>, "fifo", 17)>>,
        <<>>)

\* hard links: inode 20 twice, inode 22 three times, a symlink twice, and
\* inode 24 with a second link outside the tree, and a file with an
\* extended attribute
LinkTree ==
    Dir(<<>>, 2,
        <<File(<<1>>, 20, 2, <<SmallBlock>>),
          Dir(<<2>>, 21,
              <<File(<<7>>, 20, 2, <<SmallBlock>>),
                File(<<8>>, 22, 3, <<>>),
                File(<<9>>, 22, 3, <<>>)>>, <<>>),
          File(<<3>>, 22, 3, <<>>),
          Symlink(<<4>>, 23, 2, 3),
          Symlink(<<5>>, 23, 2, 3),
          File(<<6>>, 24, 2, <<ShortBlock>>),
          FileX(<<6, 1>>, 25, <<>>, <<Xattr(<<9>>, 4)>>)>>,
        <<>>)

\* one byte, and one zero byte: the last block of a file of
\* UBIFS_BLOCK_SIZE + 1 bytes
OneByte == Block(1, FALSE, 5, 9)

ZeroByte == Block(1, TRUE, 5, 9)

\* files of exactly UBIFS_BLOCK_SIZE and of UBIFS_BLOCK_SIZE + 1 bytes, as
\* the read loop of add_file cuts them into blocks, with and without blocks
\* that are all zero
EdgeTree ==
    Dir(<<>>, 2,
        <<File(<<1>>, 30, 1, <<BigBlock>>),
          File(<<2>>, 31, 1, <<SmallBlock, OneByte>>),
          File(<<3>>, 32, 1, <<ZeroBlock>>),
          File(<<4>>, 33, 1, <<SmallBlock, ZeroByte>>),
          File(<<5>>, 34, 1, <<ZeroBlock, OneByte>>),
          File(<<6>>, 35, 1, <<ZeroBlock, ZeroByte>>)>>,
        <<>>)

\* what a device table adds: a block device, and a directory with a node in it
DevTree ==
    Dir(<<>>, 2,
        <<Dir(<<2>>, 11, <<>>, <<Special(<<6>>, "chr", 0)>>)>>,
        <<Special(<<7>>, "blk", 0),
          Dir(<<8>>, 0, <<>>, <<Special(<<1>>, "sock", 0)>>)>>)

\* a file that does not fit the smallest volume
ManyTree == Dir(<<>>, 2, <<File(<<1>>, 10, 1, Blocks(BigBlock, ManyBlocks))>>, <<>>)

\* a file that fills the smallest volume to its last LEB
FullTree == Dir(<<>>, 2, <<File(<<1>>, 10, 1, Blocks(BigBlock, ManyBlocks - 3))>>, <<>>)

\* a file with so many leaves that the index takes more than one LEB
WrapTree == Dir(<<>>, 2, <<File(<<1>>, 10, 1, Blocks(SmallBlock, WrapBlocks))>>, <<>>)

Root(dir) == [present |-> TRUE, dir |-> dir]

\* no -r option: only what the device table names
NoRoot(devs) == [present |-> FALSE, dir |-> Dir(<<>>, 0, <<>>, devs)]

\* the options of mkfs.ubifs -m 8 -e 15360 -c 22, log_lebs and orph_lebs as
\* get_options() computes them
DfltOpts ==
    [leb_size |-> UBIFS_MIN_LEB_SZ, min_io_size |-> 8, max_leb_cnt |-> 22,
     log_lebs |-> 4, orph_lebs |-> 1, fanout |-> UBIFS_MIN_FANOUT, hash_len |-> 0,
     double_hash |-> FALSE, favor_lzo |-> FALSE, favor_percent |-> 20,
     default_compr |-> UBIFS_COMPR_LZO, root |-> Root(EmptyTree)]

Geoms == {[leb_size |-> UBIFS_MIN_LEB_SZ, min_io_size |-> 8],
          [leb_size |-> 16384, min_io_size |-> 2048],
          [leb_size |-> UBIFS_MIN_LEB_SZ, min_io_size |-> 512]}

Roots == {Root(EmptyTree), Root(SmallTree), Root(LinkTree), Root(DevTree),
          NoRoot(<<>>), NoRoot(DevTree.devs)}

Configs ==
    {[DfltOpts EXCEPT !.leb_size = g.leb_size, !.min_io_size = g.min_io_size,
                      !.fanout = f, !.root = r, !.double_hash = d, !.hash_len = h]
       : g \in Geoms, f \in UBIFS_MIN_FANOUT..MaxFanout, r \in Roots,
         d \in BOOLEAN, h \in {0}}
    \cup {[DfltOpts EXCEPT !.root = Root(SmallTree), !.default_compr = k, !.favor_lzo = fl,
                           !.hash_len = h]
            : k \in {UBIFS_COMPR_NONE, UBIFS_COMPR_ZLIB}, fl \in BOOLEAN, h \in {0, 64}}
    \cup {[DfltOpts EXCEPT !.root = Root(ManyTree), !.fanout = f]
            : f \in UBIFS_MIN_FANOUT..MaxFanout}
    \cup {[DfltOpts EXCEPT !.root = Root(WrapTree), !.hash_len = 64]}
    \cup {[DfltOpts EXCEPT !.root = Root(FullTree)]}
    \cup {[DfltOpts EXCEPT !.root = Root(EdgeTree), !.default_compr = k]
            : k \in {UBIFS_COMPR_NONE, UBIFS_COMPR_LZO}}

\* the clock, the random source, the UUID uuid_generate_random hands out, and
\* the calls of ubifs_leb_change that fail: failLen calls from the failAt-th on
Envs ==
    {[now |-> t, rnd |-> t, uuid |-> 7, failAt |-> a, failLen |-> l]
       : t \in {1, 2}, a \in 0..MaxFailAt, l \in {1, MaxFailAt + 20}}

(***************************************************************************)
(* mkfs(): one step per stage.                                             *)
(***************************************************************************)
Init ==
    /\ opts \in Configs
    /\ env \in {e \in Envs : e.failAt > 0 \/ e.failLen = 1}
    /\ pc = "init" /\ err = 0 /\ stages = <<>> /\ call = NoCall
    /\ head_lnum = 0 /\ head_offs = 0 /\ head_flags = 0 /\ leb_buf = <<>>
    /\ idx_list = <<>> /\ hash_table = <<>> /\ creat_sqnum = 0
    /\ max_sqnum = 0 /\ highest_inum = 0 /\ main_first = 0 /\ main_lebs = 0
    /\ leb_cnt = 0 /\ lpt = <<>>
    /\ lst = [empty_lebs |-> 0, idx_lebs |-> 0, total_free |-> 0, total_dirty |-> 0,
              total_used |-> 0, total_dead |-> 0, total_dark |-> 0]
    /\ zroot = [lnum |-> 0, offs |-> 0, len |-> 0]
    /\ gc_lnum = 0 /\ ihead_lnum = 0 /\ ihead_offs = 0 /\ old_idx_sz = 0
    /\ node_buf = NoNode /\ root_st = NULL /\ sink = <<>> /\ nwrites = 0
    /\ rand_calls = 0 /\ prepared = <<>> /\ leaves = <<>>
    /\ lscan_lnum = 0 /\ lpt_lnum = 0 /\ lpt_offs = 0 /\ nhead_lnum = 0
    /\ nhead_offs = 0 /\ ltab_lnum = 0 /\ ltab_offs = 0 /\ lpt_hash = 0
    /\ root_idx_hash = 0 /\ mst_hash = 0

\* mkfs() with the index written before the GC LEB is reserved
mkfs_after_swapped(name) ==
    CASE name = "init" -> "write_data"
      [] name = "write_data" -> "write_index"
      [] name = "write_index" -> "set_gc_lnum"
      [] name = "set_gc_lnum" -> "finalize_leb_cnt"
      [] name = "finalize_leb_cnt" -> "write_lpt"
      [] name = "write_lpt" -> "write_master"
      [] name = "write_master" -> "write_super"
      [] name = "write_super" -> "write_log"
      [] name = "write_log" -> "write_orphan_area"
      [] OTHER -> "out"

\* the stage mkfs() calls when the stage name has returned 0;
\* ubifs_init_authentication(c), called between init() and write_data(), sets
\* up the hash of an authenticated image and changes nothing of the builder
mkfs_after(name) ==
    CASE name = "init" -> "write_data"
      [] name = "write_data" -> "set_gc_lnum"
      [] name = "set_gc_lnum" -> "write_index"
      [] name = "write_index" -> "finalize_leb_cnt"
      [] name = "finalize_leb_cnt" -> "write_lpt"
      [] name = "write_lpt" -> "write_master"
      [] name = "write_master" -> "write_super"
      [] name = "write_super" -> "write_log"
      [] name = "write_log" -> "write_orphan_area"
      [] OTHER -> "out"

\* err = stage(); if (err) goto out;
Stage(name, s) ==
    /\ pc = name
    /\ Becomes(s)
    /\ err' = s.ret
    /\ pc' = IF s.ret # 0 THEN "out" ELSE mkfs_after(name)
    /\ stages' = Append(stages, name)
    /\ call' = Called(name, 0, s)

mkfs_init == Stage("init", init(G))

mkfs_write_data == Stage("write_data", write_data(G))

mkfs_set_gc_lnum == Stage("set_gc_lnum", set_gc_lnum(G))

mkfs_write_index == Stage("write_index", write_index(G))

mkfs_finalize_leb_cnt == Stage("finalize_leb_cnt", finalize_leb_cnt(G))

mkfs_write_lpt == Stage("write_lpt", write_lpt(G))

mkfs_write_master == Stage("write_master", write_master(G))

mkfs_write_super == Stage("write_super", write_super(G))

mkfs_write_log == Stage("write_log", write_log(G))

mkfs_write_orphan_area == Stage("write_orphan_area", write_orphan_area(G))

\* out: deinit(); return err;  main() reports the image as built when err is 0
mkfs_out ==
    /\ pc = "out"
    /\ pc' = "exit"
    /\ leb_buf' = <<>> /\ lpt' = <<>> /\ hash_table' = <<>> /\ node_buf' = NoNode
    /\ UNCHANGED <<opts, env, err, call, head_lnum, head_offs, head_flags, idx_list,
                   creat_sqnum, max_sqnum, highest_inum, main_first, main_lebs,
                   leb_cnt, lst, zroot, gc_lnum, ihead_lnum, ihead_offs, old_idx_sz,
                   root_st, sink, nwrites, rand_calls, prepared, leaves, stages,
                   lscan_lnum, lpt_lnum, lpt_offs, nhead_lnum, nhead_offs, ltab_lnum,
                   ltab_offs, lpt_hash, root_idx_hash, mst_hash>>

Next ==
    \/ mkfs_init
    \/ mkfs_write_data
    \/ mkfs_set_gc_lnum
    \/ mkfs_write_index
    \/ mkfs_finalize_leb_cnt
    \/ mkfs_write_lpt
    \/ mkfs_write_master
    \/ mkfs_write_super
    \/ mkfs_write_log
    \/ mkfs_write_orphan_area
    \/ mkfs_out

Spec == Init /\ [][Next]_vars

(***************************************************************************)
(* mkfs() as one function of the builder record, for comparing builds.     *)
(***************************************************************************)
\* the builder record before init(), under the environment e
Start(e) ==
    [env |-> e, head_lnum |-> 0, head_offs |-> 0, head_flags |-> 0, leb_buf |-> <<>>,
     idx_list |-> <<>>, hash_table |-> <<>>, creat_sqnum |-> 0, max_sqnum |-> 0,
     highest_inum |-> 0, main_first |-> 0, main_lebs |-> 0, leb_cnt |-> 0, lpt |-> <<>>,
     lst |-> [empty_lebs |-> 0, idx_lebs |-> 0, total_free |-> 0, total_dirty |-> 0,
              total_used |-> 0, total_dead |-> 0, total_dark |-> 0],
     zroot |-> [lnum |-> 0, offs |-> 0, len |-> 0],
     gc_lnum |-> 0, ihead_lnum |-> 0, ihead_offs |-> 0, old_idx_sz |-> 0,
     node_buf |-> NoNode, root_st |-> NULL, sink |-> <<>>, nwrites |-> 0,
     rand_calls |-> 0, prepared |-> <<>>, leaves |-> <<>>,
     lscan_lnum |-> 0, lpt_lnum |-> 0, lpt_offs |-> 0, nhead_lnum |-> 0,
     nhead_offs |-> 0, ltab_lnum |-> 0, ltab_offs |-> 0, lpt_hash |-> 0,
     root_idx_hash |-> 0, mst_hash |-> 0,
     ret |-> 0, lnum |-> 0, offs |-> 0, inum |-> 0, type |-> 0, kname_len |-> 0,
     dir_size |-> 0, dir_nlink |-> 0]

\* the stage name of mkfs()
mkfs_stage(s, name) ==
    CASE name = "init" -> init(s)
      [] name = "write_data" -> write_data(s)
      [] name = "set_gc_lnum" -> set_gc_lnum(s)
      [] name = "write_index" -> write_index(s)
      [] name = "finalize_leb_cnt" -> finalize_leb_cnt(s)
      [] name = "write_lpt" -> write_lpt(s)
      [] name = "write_master" -> write_master(s)
      [] name = "write_super" -> write_super(s)
      [] name = "write_log" -> write_log(s)
      [] OTHER -> write_orphan_area(s)

\* mkfs() from the stage name on; mkfs_goto is the if (err) goto out behind it
RECURSIVE mkfs(_, _)
RECURSIVE mkfs_goto(_, _)
mkfs(s, name) ==
    IF name = "out" THEN s ELSE mkfs_goto(mkfs_stage(s, name), name)

mkfs_goto(s, name) ==
    IF s.ret # 0 THEN s ELSE mkfs(s, mkfs_after(name))

(***************************************************************************)
(* The image: what the sink holds, and what the stages returned.           *)
(***************************************************************************)
\* the stage name has run
Ran(name) == \E i \in 1..Len(stages) : stages[i] = name

\* the stage name has run and returned 0
Returned0(name) ==
    \E i \in 1..Len(stages) : stages[i] = name /\ (i < Len(stages) \/ err = 0)

\* mkfs() has returned 0: the image is reported as built
Built == pc = "exit" /\ err = 0

Writes(lnum) == {i \in 1..Len(sink) : sink[i].lnum = lnum}

\* the LEB lnum of the image: what the last write to it left there
LebImage(lnum) ==
    IF Writes(lnum) = {} THEN <<>>
    ELSE sink[CHOOSE i \in Writes(lnum) : \A j \in Writes(lnum) : j <= i].buf

\* a segment that holds a node from its first to its last byte
WholeNode(seg) == seg.kind = "node" /\ seg.skip = 0 /\ seg.len = seg.node.len

NodesIn(buf) == {buf[k].node : k \in {k \in 1..Len(buf) : WholeNode(buf[k])}}

\* the nodes of the image
ImageNodes == UNION {NodesIn(LebImage(l)) : l \in {sink[i].lnum : i \in 1..Len(sink)}}

OfType(nodes, type) == {n \in nodes : n.type = type}

\* the nodes of a type that lie at offs in buf and are len bytes long
NodeAt(buf, offs, len, type) ==
    {buf[k].node : k \in {k \in 1..Len(buf) : /\ WholeNode(buf[k])
                                               /\ buf[k].offs = offs
                                               /\ buf[k].len = len
                                               /\ buf[k].node.type = type}}

Pos(x) == [lnum |-> x.lnum, offs |-> x.offs, len |-> x.len]

\* the index nodes at a position
IdxAt(p) == NodeAt(LebImage(p.lnum), p.offs, p.len, "idx")

IdxNodesAt(P) == UNION {IdxAt(p) : p \in P}

\* the positions the branches of the index nodes above level 0 at P name
ChildPos(P) ==
    UNION {{Pos(n.f.branches[j]) : j \in 1..Len(n.f.branches)}
             : n \in {m \in IdxNodesAt(P) : m.f.level > 0}}

\* the positions of index nodes a descent from P comes by, d levels deep
RECURSIVE TreePos(_, _)
TreePos(P, d) == IF d = 0 \/ P = {} THEN P ELSE P \cup TreePos(ChildPos(P), d - 1)

\* the order of two names: memcmp, then the shorter first
NameLE(n1, n2) ==
    \/ memcmp(n1, n2, 1, Min(Len(n1), Len(n2))) < 0
    \/ memcmp(n1, n2, 1, Min(Len(n1), Len(n2))) = 0 /\ Len(n1) <= Len(n2)

LeavesAt(p) == {leaves[i] : i \in {i \in 1..Len(leaves) : Pos(leaves[i]) = p}}

\* the branches b1, b2 of an index node, one behind the other, are in (key,
\* name) order; the names are those of the leaves they point to
BranchLE(level, b1, b2) ==
    /\ keys_cmp(b1.key, b2.key) <= 0
    /\ (level = 0 /\ keys_cmp(b1.key, b2.key) = 0)
          => \A l1 \in LeavesAt(Pos(b1)), l2 \in LeavesAt(Pos(b2)) : NameLE(l1.name, l2.name)

IdxWellFormed(n) ==
    /\ n.f.child_cnt \in 1..opts.fanout
    /\ Len(n.f.branches) = n.f.child_cnt
    /\ \A j \in 1..(Len(n.f.branches) - 1) :
           BranchLE(n.f.level, n.f.branches[j], n.f.branches[j + 1])

\* the branches of the level 0 index nodes among N, each as <<node, j>>
Level0Branches(N) ==
    UNION {{<<n, j>> : j \in 1..Len(n.f.branches)} : n \in {m \in N : m.f.level = 0}}

\* as many branches of B point to p as leaves were recorded at p
SameCount(B, p) ==
    Cardinality({b \in B : Pos(b[1].f.branches[b[2]]) = p})
    = Cardinality({i \in 1..Len(leaves) : Pos(leaves[i]) = p})

\* the branches B point to the recorded leaves, as multisets of positions
SameLeaves(B) ==
    \A p \in {Pos(b[1].f.branches[b[2]]) : b \in B}
             \cup {Pos(leaves[i]) : i \in 1..Len(leaves)} : SameCount(B, p)

\* the index under the positions P is a tree over the recorded leaves
IndexTree(P) ==
    /\ \A p \in P : IdxAt(p) # {}
    /\ \A n \in IdxNodesAt(P) : IdxWellFormed(n)
    /\ SameLeaves(Level0Branches(IdxNodesAt(P)))

(***************************************************************************)
(* The index (C1).                                                         *)
(***************************************************************************)
\* C1: once write_index has returned 0, a descent from zroot finds an index
\* node at every branch target, every index node it comes by has between 1
\* and fanout children with keys in non-decreasing (key, name) order, and the
\* level 0 branches point to the recorded leaves, position for position, as
\* multisets.
C1_IndexIsTree ==
    Returned0("write_index") => IndexTree(TreePos({zroot}, Len(leaves)))

(***************************************************************************)
(* The master copies (C2).                                                 *)
(***************************************************************************)
\* a LEB with the sequence numbers and CRCs of its nodes blanked
NoSqnumCrc(buf) ==
    [k \in 1..Len(buf) |->
        [buf[k] EXCEPT !.node = IF @.type = "none" THEN @
                                ELSE [@ EXCEPT !.sqnum = 0, !.crc = 0]]]

MstAt(lnum) == NodeAt(LebImage(lnum), 0, UBIFS_MST_NODE_SZ, "mst")

\* C2 as stated: once write_master has returned 0, the LEBs UBIFS_MST_LNUM
\* and UBIFS_MST_LNUM + 1 are the same bytes, the sequence number and CRC of
\* the master node's common header included.
C2_MasterCopiesIdentical ==
    Returned0("write_master") => LebImage(UBIFS_MST_LNUM) = LebImage(UBIFS_MST_LNUM + 1)

\* C2 amended: once write_master has returned 0, the two master LEBs are the
\* same bytes but for the sequence number and the CRC of the master node's
\* common header: each LEB holds one master node at offset 0, and the second
\* copy's sequence number is one greater than the first's.
C2_MasterCopiesDifferInHeader ==
    Returned0("write_master") =>
        /\ NoSqnumCrc(LebImage(UBIFS_MST_LNUM)) = NoSqnumCrc(LebImage(UBIFS_MST_LNUM + 1))
        /\ Cardinality(MstAt(UBIFS_MST_LNUM)) = 1
        /\ Cardinality(MstAt(UBIFS_MST_LNUM + 1)) = 1
        /\ \A m1 \in MstAt(UBIFS_MST_LNUM), m2 \in MstAt(UBIFS_MST_LNUM + 1) :
               m2.sqnum = m1.sqnum + 1 /\ m2.crc # m1.crc /\ m2.f = m1.f

C2_Witness ==
    /\ Returned0("write_master")
    /\ MstAt(UBIFS_MST_LNUM) # {}
    /\ MstAt(UBIFS_MST_LNUM + 1) # {}

(***************************************************************************)
(* Sequence numbers (C3).                                                  *)
(***************************************************************************)
\* C3: the nodes handed to ubifs_prepare_node get sequence numbers that grow
\* strictly from one node to the next, so each is greater than all before it
\* and no two are the same, though max_sqnum is advanced in between to mint
\* creat_sqnum; none is beyond max_sqnum.
C3_SqnumStrictlyIncreasing ==
    /\ \A i \in 1..(Len(prepared) - 1) : prepared[i].sqnum < prepared[i + 1].sqnum
    /\ \A i \in 1..Len(prepared) : prepared[i].sqnum >= 1 /\ prepared[i].sqnum <= max_sqnum

\* a creat_sqnum was minted between two nodes
C3_Witness ==
    /\ creat_sqnum > 0
    /\ \E i \in 1..(Len(prepared) - 1) :
           /\ prepared[i + 1].sqnum > prepared[i].sqnum + 1
           /\ prepared[i].sqnum < creat_sqnum
           /\ creat_sqnum < prepared[i + 1].sqnum

(***************************************************************************)
(* Link counts (C4, C5).                                                   *)
(***************************************************************************)
InoInum(n) == n.f.key[1]

\* the directory entry and extended attribute entry nodes that name inum
EntriesTo(nodes, inum) == {d \in OfType(nodes, "dent") \cup OfType(nodes, "xent") : d.f.inum = inum}

\* the entries of the directory inum that name a directory
SubdirEntries(nodes, inum) ==
    {d \in OfType(nodes, "dent") : d.f.key[1] = inum /\ d.f.type = UBIFS_ITYPE_DIR}

\* C4 as stated: in a built image the nlink of every inode node, whatever its
\* type, is the number of entry nodes that name its inode.
C4_NlinkIsEntryCount ==
    Built => \A n \in OfType(ImageNodes, "ino") :
                 n.f.nlink = Cardinality(EntriesTo(ImageNodes, InoInum(n)))

\* the amended statement over the nodes of an image
NlinkCounts(nodes) ==
    \A n \in OfType(nodes, "ino") :
        IF n.f.mode = "dir"
        THEN n.f.nlink = 2 + Cardinality(SubdirEntries(nodes, InoInum(n)))
        ELSE n.f.nlink = Cardinality(EntriesTo(nodes, InoInum(n)))

\* C4 amended: in a built image the nlink of every inode node that is no
\* directory (the inode of an extended attribute included) is the number of
\* entry nodes that name its inode; the nlink of a directory, the root
\* included, is 2 plus the number of its entries that name directories.
C4_NlinkCounts == Built => NlinkCounts(ImageNodes)

\* a built image with a file of several links and a directory with a subdirectory
C4_Witness ==
    /\ Built
    /\ \E n \in OfType(ImageNodes, "ino") : n.f.mode = "reg" /\ n.f.nlink = 3
    /\ \E n \in OfType(ImageNodes, "ino") : n.f.mode = "dir" /\ n.f.nlink = 3
    /\ \E n \in OfType(ImageNodes, "ino") : n.f.flags = UBIFS_XATTR_FL /\ n.f.nlink = 1

\* the entries of the host tree under dir that lstat reports as host inode ino
RECURSIVE HostLinks(_, _)
RECURSIVE HostLinksFrom(_, _, _)
HostLinks(dir, ino) == HostLinksFrom(dir.entries, ino, 1)

HostLinksFrom(list, ino, i) ==
    IF i > Len(list) THEN 0
    ELSE (IF list[i].mode = "dir" THEN HostLinks(list[i], ino)
          ELSE IF list[i].ino = ino THEN 1 ELSE 0)
         + HostLinksFrom(list, ino, i + 1)

\* the mapping im stands for a host file all of whose links are in the tree
AllLinksInTree(im) == HostLinks(opts.root.dir, im.inum) = im.st.nlink

\* C5: once write_data has returned 0, a host file with N > 1 links, all of
\* them in the tree, has one inode node, with nlink N, and N directory
\* entries that name that inode; the inode numbers handed back by the
\* repeated occurrences leave no gap: the inode nodes carry the root's number
\* and every number from UBIFS_FIRST_INO + 1 to highest_inum, each once.
C5_HardLinksShareInode ==
    Returned0("write_data") =>
        /\ \A k \in 1..Len(hash_table) :
               AllLinksInTree(hash_table[k]) =>
                   /\ hash_table[k].st.nlink > 1
                   /\ Cardinality({n \in OfType(ImageNodes, "ino") :
                                      InoInum(n) = hash_table[k].use_inum}) = 1
                   /\ \A n \in OfType(ImageNodes, "ino") :
                          InoInum(n) = hash_table[k].use_inum
                              => n.f.nlink = hash_table[k].st.nlink
                   /\ Cardinality(EntriesTo(ImageNodes, hash_table[k].use_inum))
                          = hash_table[k].st.nlink
        /\ {InoInum(n) : n \in OfType(ImageNodes, "ino")}
               = {UBIFS_ROOT_INO} \cup ((UBIFS_FIRST_INO + 1)..highest_inum)
        /\ Cardinality(OfType(ImageNodes, "ino")) = 1 + highest_inum - UBIFS_FIRST_INO

\* write_data has returned 0 for a tree with a file of three links, all inside
C5_Witness ==
    /\ Returned0("write_data")
    /\ pc # "exit"
    /\ \E k \in 1..Len(hash_table) :
           /\ AllLinksInTree(hash_table[k])
           /\ hash_table[k].st.nlink = 3
    /\ \E k \in 1..Len(hash_table) : ~AllLinksInTree(hash_table[k])

(***************************************************************************)
(* The finalizer (C6, C7, C8).                                             *)
(***************************************************************************)
\* C6: when the head is beyond max_leb_cnt once the index is written,
\* finalize_leb_cnt fails with the too-many-LEBs error (-1), mkfs() goes to
\* out with it, and no LEB of the LPT, master, superblock, log or orphan
\* areas is ever written.
C6_TooManyLebsFails ==
    (Returned0("write_index") /\ head_lnum > opts.max_leb_cnt) =>
        /\ \A i \in 1..Len(sink) : sink[i].lnum >= main_first
        /\ stages[Len(stages)] \in {"write_index", "finalize_leb_cnt"}
        /\ Ran("finalize_leb_cnt") => (err = -1 /\ pc \in {"out", "exit"})

C6_Witness ==
    /\ Ran("finalize_leb_cnt")
    /\ head_lnum > opts.max_leb_cnt
    /\ pc = "exit"
    /\ nwrites = Len(sink)

\* the LEBs of the image that hold index nodes
IdxLebs == {sink[i].lnum : i \in {i \in 1..Len(sink) : OfType(NodesIn(sink[i].buf), "idx") # {}}}

\* C7 as stated: once write_index has returned 0, gc_lnum is greater than the
\* LEB of every index node, zroot.lnum and ihead_lnum included.
C7_GcBehindIndex ==
    Returned0("write_index") =>
        /\ \A l \in IdxLebs : gc_lnum > l
        /\ gc_lnum > zroot.lnum
        /\ gc_lnum > ihead_lnum

\* C7 amended: the main area holds the leaf LEBs, then the GC LEB, then the
\* index LEBs: once write_index has returned 0, gc_lnum is greater than the
\* LEB of every leaf node and less than the LEB of every index node,
\* zroot.lnum and ihead_lnum included.
C7_GcBetweenLeavesAndIndex ==
    Returned0("write_index") =>
        /\ \A i \in 1..Len(leaves) : leaves[i].lnum < gc_lnum
        /\ \A l \in IdxLebs : gc_lnum < l
        /\ gc_lnum < zroot.lnum
        /\ gc_lnum < ihead_lnum
        /\ gc_lnum >= main_first

\* an index of more than one LEB behind the GC LEB
C7_Witness ==
    /\ Returned0("write_index")
    /\ Cardinality(IdxLebs) > 1
    /\ leaves # <<>>
    /\ zroot.lnum > gc_lnum + 1

IsFinalStage(name) == name \notin {"init", "write_data"}

\* C8: when mkfs() returns 0 the stages of the finalisation have run once
\* each and in this order: set_gc_lnum, write_index, finalize_leb_cnt,
\* write_lpt, write_master, write_super, write_log, write_orphan_area.
C8_FinalStagesInOrder ==
    Built => SelectSeq(stages, IsFinalStage)
                 = <<"set_gc_lnum", "write_index", "finalize_leb_cnt", "write_lpt",
                     "write_master", "write_super", "write_log", "write_orphan_area">>

C8_Witness ==
    /\ Built
    /\ Ran("write_orphan_area")
    /\ Len(sink) = nwrites
    /\ Len(sink) > opts.log_lebs + opts.orph_lebs + lpt_lebs + UBIFS_MST_LEBS

(***************************************************************************)
(* Failures of the sink (C9) and reproducible builds (C10).                *)
(***************************************************************************)
\* C9: when a call of ubifs_leb_change has failed, whenever it was made,
\* mkfs() returns non-zero, so the image is not reported as built.
C9_SinkFailureFailsBuild ==
    (pc = "exit" /\ nwrites > Len(sink)) => err # 0

\* the environments that differ from e in the clock and the random source only
Twins(e) ==
    {t \in Envs : t.uuid = e.uuid /\ t.failAt = e.failAt /\ t.failLen = e.failLen /\ t # e}

\* C10 as stated: two builds of one tree under one configuration and one UUID
\* hand the sink the same writes, LEB number and buffer, in the same order,
\* whatever the configuration.
C10_BuildsAgree ==
    pc = "exit" => \A t \in Twins(env) : mkfs(Start(t), "init").sink = sink

\* C10 amended: two builds of one tree under one configuration and one UUID
\* hand the sink the same writes, LEB number and buffer, in the same order,
\* when a root directory is given and directory entries carry no random
\* cookie (no double hash, no encryption).
C10_BuildsAgreeWithRoot ==
    (pc = "exit" /\ opts.root.present /\ ~opts.double_hash) =>
        \A t \in Twins(env) : mkfs(Start(t), "init").sink = sink

C10_Witness ==
    /\ Built
    /\ opts.root.present
    /\ ~opts.double_hash
    /\ Twins(env) # {}
    /\ OfType(ImageNodes, "dent") # {}
    /\ \A t \in Twins(env) : t.now # env.now /\ t.rnd # env.rnd

(***************************************************************************)
(* Option handling: get_options() from the end of the option switch on,    *)
(* and validate_options().  The options are a record u with the fields of  *)
(* struct ubifs_info the command line sets; -1 in min_io_size, leb_size,    *)
(* max_leb_cnt, max_bud_bytes, log_lebs or default_compr is an option that  *)
(* was not given, ubi is the geometry of the UBI volume the target is, or  *)
(* NULL for a file, and in_root is what is_contained() finds.  jhead_cnt,  *)
(* lpt_lebs and hash_len, which init() and ubifs_init_authentication() set *)
(* later, are still 0.                                                     *)
(***************************************************************************)
UBIFS_MAX_LEB_SZ == 2097152
UBIFS_REF_NODE_SZ == 64
UBIFS_MAX_KEY_LEN == 16
UBIFS_MAX_DATA_NODE_SZ == 4144
MaxJournal == 8388608

is_power_of_2(n) == n # 0 /\ \E k \in 0..30 : n = 2^k

calc_min_log_lebs(u, max_bud_bytes) ==
    (((ALIGN(UBIFS_REF_NODE_SZ, u.min_io_size)
         * ((max_bud_bytes + u.leb_size - 1) \div u.leb_size)
       + ALIGN(UBIFS_CS_NODE_SZ + UBIFS_REF_NODE_SZ * (0 + 2), u.min_io_size))
      + u.leb_size - 1) \div u.leb_size) + 1

add_space_overhead(u, size) ==
    (size * (UBIFS_MAX_DATA_NODE_SZ
              + (((UBIFS_IDX_NODE_SZ + (UBIFS_BRANCH_SZ + UBIFS_SK_LEN) * u.fanout) * 3)
                   \div ((IF u.fanout > 3 THEN u.fanout \div 2 ELSE 2) - 1))))
      \div UBIFS_BLOCK_SIZE

\* validate_options(): 0 when every rule holds of the options u, -1 at the
\* first rule that does not
validate_options(u) ==
    IF ~u.dev_name THEN -1
    ELSE IF u.root # NULL /\ u.in_root # 0 THEN -1
    ELSE IF ~is_power_of_2(u.min_io_size) THEN -1
    ELSE IF u.leb_size < u.min_io_size THEN -1
    ELSE IF u.leb_size < UBIFS_MIN_LEB_SZ THEN -1
    ELSE IF u.leb_size % u.min_io_size # 0 THEN -1
    ELSE IF u.leb_size % 8 # 0 THEN -1
    ELSE IF u.leb_size > UBIFS_MAX_LEB_SZ THEN -1
    ELSE IF u.max_leb_cnt < UBIFS_MIN_LEB_CNT THEN -1
    ELSE IF u.fanout < UBIFS_MIN_FANOUT THEN -1
    ELSE IF u.fanout > (u.leb_size - UBIFS_IDX_NODE_SZ)
                          \div (UBIFS_BRANCH_SZ + UBIFS_MAX_KEY_LEN) THEN -1
    ELSE IF u.log_lebs < UBIFS_MIN_LOG_LEBS THEN -1
    ELSE IF u.log_lebs >= u.max_leb_cnt - UBIFS_MIN_LEB_CNT THEN -1
    ELSE IF u.orph_lebs < UBIFS_MIN_ORPH_LEBS THEN -1
    ELSE IF u.orph_lebs >= u.max_leb_cnt - UBIFS_MIN_LEB_CNT THEN -1
    ELSE IF UBIFS_SB_LEBS + UBIFS_MST_LEBS + u.log_lebs + 0 + u.orph_lebs + 4
              > u.max_leb_cnt THEN -1
    ELSE IF u.log_lebs < calc_min_log_lebs(u, u.max_bud_bytes) THEN -1
    ELSE IF u.rp_size >= (u.leb_size * u.max_leb_cnt) \div 2 THEN -1
    ELSE 0

\* if (c->libubi): the geometry of the UBI volume replaces the options
get_options_ubi(u) ==
    IF u.ubi = NULL THEN u
    ELSE [u EXCEPT !.min_io_size = u.ubi.min_io_size,
                   !.leb_size = u.ubi.leb_size,
                   !.max_leb_cnt = IF @ = -1 THEN u.ubi.rsvd_lebs ELSE @]

\* select_default_compr() in a build with LZO
get_options_compr(u) ==
    IF u.default_compr = -1 THEN [u EXCEPT !.default_compr = UBIFS_COMPR_LZO] ELSE u

\* the default size of the journal
get_options_bud(u) ==
    IF u.max_bud_bytes # -1 THEN u
    ELSE [u EXCEPT !.max_bud_bytes =
            Max(4 * u.leb_size,
                Min(MaxJournal,
                    ((u.max_leb_cnt - UBIFS_SB_LEBS - UBIFS_MST_LEBS - u.orph_lebs
                        - (IF u.log_lebs # -1 THEN u.log_lebs ELSE UBIFS_MIN_LOG_LEBS)
                        - UBIFS_MIN_LPT_LEBS) \div 8) * u.leb_size))]

\* the default size of the log
get_options_log(u) ==
    IF u.log_lebs = -1
    THEN [u EXCEPT !.log_lebs = calc_min_log_lebs(u, u.max_bud_bytes) + 2]
    ELSE u

\* if (c->min_io_size < 8) c->min_io_size = 8;
get_options_round(u) ==
    IF u.min_io_size < 8 THEN [u EXCEPT !.min_io_size = 8] ELSE u

get_options_rp(u) == [u EXCEPT !.rp_size = add_space_overhead(u, u.rp_size)]

\* get_options() with the minimal I/O unit rounded after validate_options()
get_options_validated_first(u) ==
    [get_options_rp(get_options_round(u)) EXCEPT !.ret = validate_options(u)]

\* the end of get_options(): round, then validate
get_options_validate(u) ==
    [get_options_rp(get_options_round(u))
       EXCEPT !.ret = validate_options(get_options_rp(get_options_round(u)))]

\* the options that must be given
get_options_given(u) ==
    IF u.min_io_size = -1 \/ u.leb_size = -1 \/ u.max_leb_cnt = -1
    THEN [u EXCEPT !.ret = -1]
    ELSE get_options_validate(get_options_log(get_options_bud(u)))

\* case 'm', 'e', 'c', 'l', 'p', 'j', 'R' of the option switch: a size or a
\* count that is not positive is refused at once
get_options(u) ==
    IF \/ (u.min_io_size # -1 /\ u.min_io_size <= 0)
       \/ (u.leb_size # -1 /\ u.leb_size <= 0)
       \/ (u.max_leb_cnt # -1 /\ u.max_leb_cnt <= 0)
       \/ (u.log_lebs # -1 /\ u.log_lebs <= 0)
       \/ u.orph_lebs <= 0
       \/ (u.max_bud_bytes # -1 /\ u.max_bud_bytes <= 0)
       \/ u.rp_size < 0
    THEN [u EXCEPT !.ret = -1]
    ELSE get_options_given(get_options_compr(get_options_ubi(u)))

\* the globals other than the options, the environment and the bookkeeping
Globals ==
    <<head_lnum, head_offs, head_flags, leb_buf, idx_list, hash_table, creat_sqnum,
      max_sqnum, highest_inum, main_first, main_lebs, leb_cnt, lpt, lst, zroot,
      gc_lnum, ihead_lnum, ihead_offs, old_idx_sz, node_buf, root_st, sink, nwrites,
      rand_calls, prepared, leaves, lscan_lnum, lpt_lnum, lpt_offs, nhead_lnum,
      nhead_offs, ltab_lnum, ltab_offs, lpt_hash, root_idx_hash, mst_hash>>

\* the globals are those of the builder record s
Holds(s) ==
    /\ head_lnum = s.head_lnum /\ head_offs = s.head_offs
    /\ head_flags = s.head_flags /\ leb_buf = s.leb_buf
    /\ idx_list = s.idx_list /\ hash_table = s.hash_table
    /\ creat_sqnum = s.creat_sqnum /\ max_sqnum = s.max_sqnum
    /\ highest_inum = s.highest_inum /\ main_first = s.main_first
    /\ main_lebs = s.main_lebs /\ leb_cnt = s.leb_cnt
    /\ lpt = s.lpt /\ lst = s.lst /\ zroot = s.zroot /\ gc_lnum = s.gc_lnum
    /\ ihead_lnum = s.ihead_lnum /\ ihead_offs = s.ihead_offs
    /\ old_idx_sz = s.old_idx_sz /\ node_buf = s.node_buf /\ root_st = s.root_st
    /\ sink = s.sink /\ nwrites = s.nwrites
    /\ rand_calls = s.rand_calls /\ prepared = s.prepared /\ leaves = s.leaves
    /\ lscan_lnum = s.lscan_lnum /\ lpt_lnum = s.lpt_lnum /\ lpt_offs = s.lpt_offs
    /\ nhead_lnum = s.nhead_lnum /\ nhead_offs = s.nhead_offs
    /\ ltab_lnum = s.ltab_lnum /\ ltab_offs = s.ltab_offs
    /\ lpt_hash = s.lpt_hash /\ root_idx_hash = s.root_idx_hash
    /\ mst_hash = s.mst_hash

\* an environment in which the sink never fails
QuietEnv == [now |-> 1, rnd |-> 1, uuid |-> 7, failAt |-> 0, failLen |-> 1]

\* the command lines: every minimal I/O unit up to MaxSmallIo and some larger
\* ones, given or not, over LEB sizes and LEB counts inside and outside the
\* rules, for a file and for a UBI volume
MaxSmallIo == 12

MinIoSizes == (-1..MaxSmallIo) \cup {16, 24, 512, 2048, 4096}

UbiVolume == [min_io_size |-> 2048, leb_size |-> 126976, rsvd_lebs |-> 100]

OddUbiVolume == [min_io_size |-> 1, leb_size |-> 15360, rsvd_lebs |-> 30]

UserBase ==
    DfltOpts @@ [max_bud_bytes |-> -1, rp_size |-> 0, dev_name |-> TRUE, in_root |-> 0,
                 ubi |-> NULL, ret |-> 0]

UserOptions ==
    {[UserBase EXCEPT !.min_io_size = m, !.leb_size = e, !.max_leb_cnt = n,
                      !.log_lebs = l, !.ubi = b]
       : m \in MinIoSizes, e \in {8192, 15360, 16384, 126976}, n \in {-1, 16, 22, 100},
         l \in {-1, 4}, b \in {NULL, UbiVolume, OddUbiVolume}}
    \cup {[UserBase EXCEPT !.min_io_size = m, !.dev_name = d, !.in_root = i,
                           !.rp_size = r, !.fanout = f, !.default_compr = k]
            : m \in {3, 8}, d \in BOOLEAN, i \in {-1, 0, 1}, r \in {0, 4096, 200000},
              f \in {2, 3, 8, 600}, k \in {-1, UBIFS_COMPR_NONE}}

InitOptions ==
    /\ opts \in UserOptions
    /\ env = QuietEnv
    /\ pc = "get_options" /\ err = 0 /\ stages = <<>> /\ call = NoCall
    /\ Holds(Start(env))

\* main(): err = get_options(argc, argv); if (err) return err;
main_get_options ==
    /\ pc = "get_options"
    /\ opts' = get_options(opts)
    /\ err' = opts'.ret
    /\ pc' = IF opts'.ret # 0 THEN "exit" ELSE "mkfs"
    /\ call' = Called("get_options", opts, G)
    /\ UNCHANGED <<env, stages, Globals>>

NextOptions == main_get_options

SpecOptions == InitOptions /\ [][NextOptions]_vars

\* the minimal I/O unit in effect: the UBI volume's when the target is one
GivenMinIo(u) == IF u.ubi = NULL THEN u.min_io_size ELSE u.ubi.min_io_size

\* the options u with 8 as the minimal I/O unit in effect
WithMinIo8(u) ==
    IF u.ubi = NULL THEN [u EXCEPT !.min_io_size = 8]
    ELSE [u EXCEPT !.ubi.min_io_size = 8]

\* C11 (as stated): option validation rejects every user-supplied minimal
\* I/O unit that is not a power of two, the rounding of a unit below 8 up to
\* 8 taking place only after validation has seen the user's value.
C11_RejectsEveryNonPowerOfTwo ==
    (call.op = "get_options" /\ call.arg.ubi = NULL
       /\ ~is_power_of_2(call.arg.min_io_size))
      => err # 0

\* C11 (amended): a minimal I/O unit below 8 is rounded up to 8 before
\* validation runs, so get_options treats every unit from 1 to 7 exactly as
\* it treats 8, accepted options carry the rounded unit, and the units
\* rejected for not being a power of two are those of 8 or more.
C11_RoundsBeforeValidation ==
    call.op = "get_options" =>
      /\ (GivenMinIo(call.arg) \in 1..7 =>
            /\ err = get_options(WithMinIo8(call.arg)).ret
            /\ (err = 0 => [opts EXCEPT !.ubi = NULL]
                             = [get_options(WithMinIo8(call.arg)) EXCEPT !.ubi = NULL]))
      /\ (err = 0 => opts.min_io_size = Max(8, GivenMinIo(call.arg)))
      /\ ((GivenMinIo(call.arg) >= 8 /\ ~is_power_of_2(GivenMinIo(call.arg))) => err # 0)

C11_Witness ==
    /\ call.op = "get_options" /\ call.arg.ubi = NULL
    /\ call.arg.min_io_size = 3
    /\ err = 0 /\ opts.min_io_size = 8

(***************************************************************************)
(* The data nodes of a file.                                               *)
(***************************************************************************)
\* the regular files of the root directory of the source tree whose size is n
TopFiles(n) ==
    {opts.root.dir.entries[i] :
       i \in {i \in 1..Len(opts.root.dir.entries) :
                /\ opts.root.dir.entries[i].mode = "reg"
                /\ FileSize(opts.root.dir.entries[i].blocks) = n}}

\* the data nodes of the image that belong to the file the root directory
\* lists under name
DataNodesOf(name) ==
    {n \in OfType(ImageNodes, "data") :
       \E d \in OfType(ImageNodes, "dent") :
          d.f.key[1] = UBIFS_ROOT_INO /\ d.f.name = name /\ d.f.inum = n.f.key[1]}

\* the blocks of a file that are not all zero
NonHoles(e) == {i \in 1..Len(e.blocks) : ~e.blocks[i].zero}

\* C12 (as stated): a file of exactly UBIFS_BLOCK_SIZE bytes has exactly one
\* data node in the image, a file of UBIFS_BLOCK_SIZE + 1 bytes exactly two,
\* whatever the bytes of the file are.
C12_DataNodePerBlock ==
    (Built /\ opts.root.present) =>
      /\ \A e \in TopFiles(UBIFS_BLOCK_SIZE) : Cardinality(DataNodesOf(e.name)) = 1
      /\ \A e \in TopFiles(UBIFS_BLOCK_SIZE + 1) : Cardinality(DataNodesOf(e.name)) = 2

\* C12 (amended): a file of exactly UBIFS_BLOCK_SIZE bytes has one data
\* node, for block 0, unless its bytes are all zero, and then it has none; a
\* file of UBIFS_BLOCK_SIZE + 1 bytes has a data node of UBIFS_BLOCK_SIZE
\* bytes for block 0 and one of 1 byte for block 1, less those of the two
\* blocks whose bytes are all zero.
C12_DataNodePerNonZeroBlock ==
    (Built /\ opts.root.present) =>
      \A e \in TopFiles(UBIFS_BLOCK_SIZE) \cup TopFiles(UBIFS_BLOCK_SIZE + 1) :
         /\ Cardinality(DataNodesOf(e.name)) = Cardinality(NonHoles(e))
         /\ \A i \in NonHoles(e) :
               \E n \in DataNodesOf(e.name) :
                  n.f.key[3] = i - 1 /\ n.f.size = e.blocks[i].len
         /\ \A i \in 1..Len(e.blocks) :
               e.blocks[i].len = IF i = 1 THEN UBIFS_BLOCK_SIZE ELSE 1

C12_Witness ==
    /\ Built /\ opts.root.present
    /\ \E e \in TopFiles(UBIFS_BLOCK_SIZE) :
          NonHoles(e) = {1} /\ Cardinality(DataNodesOf(e.name)) = 1
    /\ \E e \in TopFiles(UBIFS_BLOCK_SIZE + 1) :
          NonHoles(e) = {1, 2} /\ Cardinality(DataNodesOf(e.name)) = 2
    /\ \E e \in TopFiles(UBIFS_BLOCK_SIZE) :
          NonHoles(e) = {} /\ DataNodesOf(e.name) = {}

(***************************************************************************)
(* The inode counter of the master node.                                   *)
(***************************************************************************)
\* the inode numbers of the inode nodes of the image
EmittedInums == {InoInum(n) : n \in OfType(ImageNodes, "ino")}

\* the master nodes of the image
MstNodes == MstAt(UBIFS_MST_LNUM) \cup MstAt(UBIFS_MST_LNUM + 1)

\* C13 (as stated): the highest_inum of the master node is the largest inode
\* number of any inode node of the image, for every source tree, the empty
\* one included.
C13_HighestInumIsLargestEmitted ==
    Returned0("write_master") =>
      \A m \in MstNodes : \A i \in EmittedInums :
         i <= m.f.highest_inum /\ m.f.highest_inum \in EmittedInums

\* C13 (amended): the highest_inum of the master node is the larger of
\* UBIFS_FIRST_INO and the largest inode number of any inode node of the
\* image: the largest inode number emitted when the image has an inode
\* besides the root's, and UBIFS_FIRST_INO, which no inode node carries, when
\* the root's inode is the only one.
C13_HighestInumFromFirstIno ==
    Returned0("write_master") =>
      /\ MstNodes # {}
      /\ \A m \in MstNodes :
            /\ m.f.highest_inum = highest_inum
            /\ \A i \in EmittedInums : i <= m.f.highest_inum
            /\ IF EmittedInums = {UBIFS_ROOT_INO}
               THEN m.f.highest_inum = UBIFS_FIRST_INO
               ELSE m.f.highest_inum \in EmittedInums

\* a built image of the tree with hard links and an extended attribute
C13_Witness ==
    /\ Built
    /\ opts.root = Root(LinkTree)
    /\ \E m \in MstNodes :
          /\ m.f.highest_inum > UBIFS_FIRST_INO
          /\ m.f.highest_inum \in EmittedInums
          /\ \A i \in EmittedInums : i <= m.f.highest_inum

(***************************************************************************)
(* The compressor front end on its own: add_file has read a block and      *)
(* hands it to compress_data.  The build has LZO and zlib; the options are *)
(* those the -x and -X options can leave behind, "-x favor_lzo -x none"    *)
(* included, which leaves favor_lzo set and default_compr at none.         *)
(***************************************************************************)
ComprLens == {80, 100, 127, 128, 500, 560, 800, 1000, 4096, 4200}

\* the blocks: the bytes read, and what each compressor makes of them
ComprBlocks ==
    {[len |-> n, zero |-> FALSE, lzo_ok |-> lo, lzo_len |-> ll, zlib_ok |-> zo,
      zlib_len |-> zl]
       : n \in {100, 127, 128, 1000, UBIFS_BLOCK_SIZE}, lo \in BOOLEAN, zo \in BOOLEAN,
         ll \in ComprLens, zl \in ComprLens}

ComprConfigs ==
    {[DfltOpts EXCEPT !.default_compr = k, !.favor_lzo = fl, !.favor_percent = fp]
       : k \in {UBIFS_COMPR_NONE, UBIFS_COMPR_LZO, UBIFS_COMPR_ZLIB},
         fl \in BOOLEAN, fp \in {20, 44, 50}}

InitCompr ==
    /\ opts \in ComprConfigs
    /\ env = QuietEnv
    /\ pc = "compress_data" /\ err = 0 /\ stages = <<>>
    /\ call \in {[op |-> "read", arg |-> b] : b \in ComprBlocks}
    /\ Holds(Start(env))

\* compr_type = compress_data(buf, bytes_read, &dn->data, &out_len, use_compr):
\* out is the type returned and the length left in out_len, sel what the
\* compressor handed back when one ran
add_file_compress ==
    /\ pc = "compress_data"
    /\ call' = [op |-> "compress_data", arg |-> call.arg, type |-> opts.default_compr,
                sel |-> Compressed(call.arg, opts.default_compr),
                out |-> compress_data(call.arg, opts.default_compr)]
    /\ pc' = "add_node"
    /\ UNCHANGED <<opts, env, err, stages, Globals>>

NextCompr == add_file_compress

SpecCompr == InitCompr /\ [][NextCompr]_vars

\* a compressor ran on the block b, succeeded and made it shorter
Shrunk(b, ok, out_len) == b.len >= UBIFS_MIN_COMPR_LEN /\ ok /\ out_len < b.len

\* C14: compress_data never returns more bytes than it was given; the block
\* is stored as it is, out_len = in_len and type UBIFS_COMPR_NONE, when the
\* compressor chosen fails, or does not make it shorter, or the block is
\* shorter than UBIFS_MIN_COMPR_LEN, or the type asked for is none; and
\* otherwise the type returned is that of the compressor whose bytes are
\* stored.
C14_NeverLongerAndVerbatim ==
    call.op = "compress_data" =>
      /\ call.out.out_len <= call.arg.len
      /\ (\/ call.arg.len < UBIFS_MIN_COMPR_LEN
          \/ call.type = UBIFS_COMPR_NONE
          \/ call.sel.ret # 0
          \/ call.sel.out_len >= call.arg.len)
           => call.out.type = UBIFS_COMPR_NONE /\ call.out.out_len = call.arg.len
      /\ ~(\/ call.arg.len < UBIFS_MIN_COMPR_LEN
           \/ call.type = UBIFS_COMPR_NONE
           \/ call.sel.ret # 0
           \/ call.sel.out_len >= call.arg.len)
           => /\ call.out.type = call.sel.type
              /\ call.out.type = UBIFS_COMPR_LZO
                   => call.arg.lzo_ok /\ call.out.out_len = call.arg.lzo_len
              /\ call.out.type = UBIFS_COMPR_ZLIB
                   => call.arg.zlib_ok /\ call.out.out_len = call.arg.zlib_len
              /\ call.out.type \in {UBIFS_COMPR_LZO, UBIFS_COMPR_ZLIB}

\* the same but for the case of C14 that fails: type none with favor_lzo set
C14_ButFavorLzo ==
    (call.op = "compress_data" /\ ~(opts.favor_lzo /\ call.type = UBIFS_COMPR_NONE))
      => C14_NeverLongerAndVerbatim

\* favor_lzo_compress ran on the block of the call, and both compressors
\* succeeded
BothSucceeded ==
    /\ call.op = "compress_data" /\ opts.favor_lzo
    /\ call.arg.len >= UBIFS_MIN_COMPR_LEN
    /\ call.arg.lzo_ok /\ call.arg.zlib_ok

\* favor_lzo_compress ran and one compressor alone succeeded
OneSucceeded ==
    /\ call.op = "compress_data" /\ opts.favor_lzo
    /\ call.arg.len >= UBIFS_MIN_COMPR_LEN
    /\ call.arg.lzo_ok # call.arg.zlib_ok

OneSelected ==
    OneSucceeded =>
      /\ call.sel.ret = 0
      /\ call.sel.type = IF call.arg.lzo_ok THEN UBIFS_COMPR_LZO ELSE UBIFS_COMPR_ZLIB
      /\ call.sel.out_len = IF call.arg.lzo_ok THEN call.arg.lzo_len ELSE call.arg.zlib_len

\* C15 (as stated): in favor_lzo mode, when both compressors succeed, zlib is
\* selected exactly when zlib_len * 100 < (100 - favor_percent) * lzo_len and
\* LZO otherwise, LZO also when zlib is better by exactly favor_percent; when
\* one compressor alone succeeds, that one is selected.
C15_ZlibOnlyWhenStrictlyBetter ==
    /\ BothSucceeded =>
         call.sel.type = IF call.arg.zlib_len * 100
                              < (100 - opts.favor_percent) * call.arg.lzo_len
                         THEN UBIFS_COMPR_ZLIB ELSE UBIFS_COMPR_LZO
    /\ OneSelected

\* C15 (amended): in favor_lzo mode, when both compressors succeed, zlib is
\* selected when zlib_len * 100 < (100 - favor_percent) * lzo_len and LZO
\* when zlib_len * 100 > (100 - favor_percent) * lzo_len; when zlib is
\* better by exactly favor_percent the floating-point test percent >
\* 100 - favor_percent decides, and that selects zlib unless the double
\* product is rounded above 100 - favor_percent; when one compressor alone
\* succeeds, that one is selected.
C15_ZlibWhenBetterOrEqual ==
    /\ BothSucceeded =>
         /\ call.sel.ret = 0
         /\ call.arg.zlib_len * 100 < (100 - opts.favor_percent) * call.arg.lzo_len
              => call.sel.type = UBIFS_COMPR_ZLIB /\ call.sel.out_len = call.arg.zlib_len
         /\ call.arg.zlib_len * 100 > (100 - opts.favor_percent) * call.arg.lzo_len
              => call.sel.type = UBIFS_COMPR_LZO /\ call.sel.out_len = call.arg.lzo_len
         /\ call.arg.zlib_len * 100 = (100 - opts.favor_percent) * call.arg.lzo_len
              => call.sel.type = IF (100 - opts.favor_percent) \in PercentAbove
                                 THEN UBIFS_COMPR_LZO ELSE UBIFS_COMPR_ZLIB
    /\ OneSelected

\* zlib better by exactly favor_percent (800 bytes to LZO's 1000, at 20) is
\* selected
C15_Witness ==
    /\ BothSucceeded
    /\ opts.favor_percent = 20
    /\ call.arg.zlib_len * 100 = (100 - opts.favor_percent) * call.arg.lzo_len
    /\ call.sel.type = UBIFS_COMPR_ZLIB
    /\ call.out.type = UBIFS_COMPR_ZLIB

(***************************************************************************)
(* The positions the index names.                                          *)
(***************************************************************************)
IsIdxSeg(seg) == seg.kind = "node" /\ seg.node.type = "idx" /\ seg.lnum >= 0

\* the index nodes of the LEBs lo..hi of the image, in the order in which
\* they lie there, each with its place
RECURSIVE IdxSeqOf(_, _)
IdxSeqOf(lo, hi) ==
    IF lo > hi THEN <<>>
    ELSE IF lo < hi
    THEN IdxSeqOf(lo, (lo + hi) \div 2) \o IdxSeqOf((lo + hi) \div 2 + 1, hi)
    ELSE SelectSeq(<<>> \o [k \in 1..Len(LebImage(lo)) |->
                              IF WholeNode(LebImage(lo)[k])
                              THEN [kind |-> "node", lnum |-> lo,
                                    offs |-> LebImage(lo)[k].offs,
                                    len |-> LebImage(lo)[k].len,
                                    node |-> LebImage(lo)[k].node]
                              ELSE [kind |-> "fill", lnum |-> lo]],
                   IsIdxSeg)

\* the index nodes of the image: write_index writes them behind the GC LEB
IdxSeq == IdxSeqOf(gc_lnum + 1, head_lnum)

\* where the row of the level begins in the sequence S of index nodes:
\* write_index writes the rows one after the other from level 0 up
RowStart(S, level) == 1 + Cardinality({k \in 1..Len(S) : S[k].node.f.level < level})

\* the place in S of the child the j-th branch of S[k] stands for: each row
\* is written from left to right, fanout children to a node
ChildOf(S, k, j) ==
    RowStart(S, S[k].node.f.level - 1)
      + (k - RowStart(S, S[k].node.f.level)) * opts.fanout + (j - 1)

\* every branch of every node above level 0 in S names the place of its
\* child in S and carries the key the child begins with, which is the key of
\* the first leaf below it
BranchesNameChildren(S) ==
    \A k \in {i \in 1..Len(S) : S[i].node.f.level > 0} :
       \A j \in 1..Len(S[k].node.f.branches) :
          /\ ChildOf(S, k, j) \in 1..Len(S)
          /\ S[ChildOf(S, k, j)].node.f.level = S[k].node.f.level - 1
          /\ Pos(S[k].node.f.branches[j]) = Pos(S[ChildOf(S, k, j)])
          /\ S[k].node.f.branches[j].key = S[ChildOf(S, k, j)].node.f.branches[1].key

\* C16: once write_index has returned 0, every branch of every index node
\* above level 0 names the LEB, the offset and the length at which the child
\* it stands for lies in the image, and carries the key of the first leaf
\* below that child.
C16_BranchesNameChildren ==
    Returned0("write_index") => \A S \in {IdxSeq} : BranchesNameChildren(S)

\* the same for the builds in which no write of the sink has failed
C16_UnlessSinkFailed ==
    (Returned0("write_index") /\ nwrites = Len(sink))
       => \A S \in {IdxSeq} : BranchesNameChildren(S)

\* an index of three levels at least, over more than one LEB, the last node
\* of the bottom row short
C16_Reached ==
    /\ Returned0("write_index") /\ nwrites = Len(sink)
    /\ \E S \in {IdxSeq} :
          /\ \E k \in 1..Len(S) : S[k].node.f.level >= 2
          /\ S[1].lnum # S[Len(S)].lnum
          /\ \E k \in 1..Len(S) : S[k].node.f.level = 0 /\ S[k].node.f.child_cnt < opts.fanout

(***************************************************************************)
(* The GC LEB.                                                             *)
(***************************************************************************)
\* set_gc_lnum has returned 0; call holds the head, the ledger and the
\* number of LEBs of the sink as they were when it was called
GcReserved == call.op = "set_gc_lnum" /\ err = 0 /\ pc = "write_index"

\* the one LEB set_gc_lnum wrote: all 0xFF, at the head's LEB number
GcLebWritten ==
    /\ Len(sink) = call.nsink + 1
    /\ sink[Len(sink)].lnum = call.head_lnum
    /\ sink[Len(sink)].buf = <<Fill("ff", opts.leb_size)>>
    /\ gc_lnum = call.head_lnum
    /\ head_lnum = call.head_lnum + 1
    /\ head_offs = call.head_offs

\* C19 as stated: set_gc_lnum writes one all-0xFF LEB at the head's LEB
\* number, advances the head by one LEB and changes no aggregate of the
\* ledger but empty_lebs
C19_OnlyEmptyLebsChanges ==
    GcReserved => /\ GcLebWritten
                  /\ lst = [call.lst EXCEPT !.empty_lebs = @ + 1]

\* C19 as the code has it: set_gc_lnum writes one all-0xFF LEB at the head's
\* LEB number and advances the head by one LEB; it counts the LEB as empty,
\* adds its whole size to total_free and calc_dark(leb_size) to total_dark,
\* and leaves total_dirty, total_used, total_dead and idx_lebs unchanged
C19_EmptyLebIsFreeAndDark ==
    GcReserved => /\ GcLebWritten
                  /\ lst = [call.lst EXCEPT !.empty_lebs = @ + 1,
                                            !.total_free = @ + opts.leb_size,
                                            !.total_dark = @ + calc_dark(opts.leb_size)]
                  /\ lst.total_dirty = call.lst.total_dirty
                  /\ lst.total_used = call.lst.total_used
                  /\ lst.total_dead = call.lst.total_dead
                  /\ lst.idx_lebs = call.lst.idx_lebs
                  /\ lpt[gc_lnum - main_first].free = opts.leb_size
                  /\ lpt[gc_lnum - main_first].dirty = 0
                  /\ lpt[gc_lnum - main_first].flags = 0

\* the GC LEB is reserved behind data that left the ledger with free, dirty
\* and used space
C19_Witness ==
    /\ GcReserved
    /\ GcLebWritten
    /\ call.lst.total_used > 0
    /\ call.lst.total_free > 0
    /\ lst.total_free = call.lst.total_free + opts.leb_size
    /\ lst.total_dark > call.lst.total_dark
    /\ lst.empty_lebs = call.lst.empty_lebs + 1

(***************************************************************************)
(* The write head, call by call: the calls mkfs() makes on the head in the *)
(* order it makes them -- the nodes write_data adds and its flush, the GC  *)
(* LEB, the index nodes write_index adds and its flush.                    *)
(***************************************************************************)
\* the number of nodes a run adds to the head
MaxCalls == 3

\* a run that fills the volume with nodes of a whole LEB each, which carries
\* the head past the main area
FillConfig == [DfltOpts EXCEPT !.root = Root(ManyTree)]

HeadConfigs ==
    {[DfltOpts EXCEPT !.leb_size = g.leb_size, !.min_io_size = g.min_io_size]
       : g \in Geoms}
    \cup {FillConfig}

\* the nodes the run may add
HeadCalls == IF opts = FillConfig THEN MainLebs + 1 ELSE MaxCalls

\* a sink that takes every LEB, or fails at the first or the second
HeadEnvs == {[QuietEnv EXCEPT !.failAt = a] : a \in 0..2}

\* the node lengths: an odd one, a multiple of 8, the largest data node, one
\* that leaves a little more than dark_wm, one that leaves less than
\* dead_wm, a whole LEB
HeadLens ==
    IF opts = FillConfig THEN {opts.leb_size}
    ELSE {UBIFS_DATA_NODE_SZ + 1, 160, UBIFS_MAX_DATA_NODE_SZ,
          opts.leb_size - dark_wm - 8, opts.leb_size - 41, opts.leb_size}

\* the child counts of the index nodes
HeadChildCnts == IF opts = FillConfig THEN {opts.fanout} ELSE 1..opts.fanout

\* the head behind init()
InitHead ==
    /\ opts \in HeadConfigs
    /\ env \in HeadEnvs
    /\ pc = "write_data" /\ err = 0 /\ stages = <<>> /\ call = NoCall
    /\ Holds(init(Start(env)))

\* the call op(arg) made the globals those of s: stages keeps the place
\* reserve_space handed out, call the head and the ledger as they were
HeadCall(op, arg, s, after) ==
    /\ Becomes(s)
    /\ err' = s.ret
    /\ pc' = IF s.ret # 0 THEN "out" ELSE after
    /\ stages' = Append(stages, [op |-> op, len |-> arg, lnum |-> s.lnum, offs |-> s.offs,
                                 ret |-> s.ret])
    /\ call' = Called(op, arg, s)

\* write_data: one more node goes to the head
write_data_add_node(len) ==
    /\ pc = "write_data"
    /\ Len(stages) < HeadCalls
    /\ HeadCall("add_node", len,
                add_node(G, data_key_init(UBIFS_FIRST_INO + 1, Len(stages)), NULL, 0,
                         Node("data", [key |-> data_key_init(UBIFS_FIRST_INO + 1, Len(stages)),
                                       size |-> UBIFS_BLOCK_SIZE, compr_type |-> UBIFS_COMPR_NONE,
                                       compr_size |-> 0, out_len |-> len - UBIFS_DATA_NODE_SZ]),
                         len),
                "write_data")

\* write_data: return flush_nodes(), behind the root directory's inode
write_data_flush_nodes ==
    /\ pc = "write_data"
    /\ leaves # <<>>
    /\ HeadCall("flush_nodes", 0, flush_nodes(G), "set_gc_lnum")

\* mkfs(): err = set_gc_lnum()
head_set_gc_lnum ==
    /\ pc = "set_gc_lnum"
    /\ HeadCall("set_gc_lnum", 0, set_gc_lnum(G), "write_index")

\* write_index: head_flags = LPROPS_INDEX, and one more index node goes to
\* the head
write_index_add_idx_node(child_cnt) ==
    /\ pc = "write_index"
    /\ Len(SelectSeq(stages, LAMBDA e : e.op \in {"add_node", "add_idx_node"})) < HeadCalls
    /\ HeadCall("add_idx_node", ubifs_idx_node_sz(child_cnt),
                add_idx_node([G EXCEPT !.head_flags = LPROPS_INDEX],
                             IdxNode(child_cnt, 0, <<>>), child_cnt),
                "write_index")

\* write_index: return flush_nodes(), behind the root index node
write_index_flush_nodes ==
    /\ pc = "write_index"
    /\ head_flags = LPROPS_INDEX
    /\ HeadCall("flush_nodes", 0, flush_nodes(G), "finalize_leb_cnt")

NextHead ==
    \/ \E len \in HeadLens : write_data_add_node(len)
    \/ write_data_flush_nodes
    \/ head_set_gc_lnum
    \/ \E child_cnt \in HeadChildCnts : write_index_add_idx_node(child_cnt)
    \/ write_index_flush_nodes

SpecHead == InitHead /\ [][NextHead]_vars

\* the reservations reserve_space made and returned 0 for, in call order
Reservations ==
    SelectSeq(stages, LAMBDA e : e.op \in {"add_node", "add_idx_node"} /\ e.ret = 0)

\* two reservations share no byte
Apart(a, b) ==
    a.lnum # b.lnum \/ a.offs + a.len <= b.offs \/ b.offs + b.len <= a.offs

InsideLeb(r) == r.offs % 8 = 0 /\ r.offs >= 0 /\ r.offs + r.len <= opts.leb_size

NoOverlap(R) == \A i, j \in 1..Len(R) : i < j => Apart(R[i], R[j])

\* C17: every place reserve_space hands out for a node of at most leb_size
\* bytes is 8-byte aligned and leaves the node inside the LEB, no two
\* reservations overlap, and behind every reserve and flush head_offs is a
\* multiple of 8 that does not exceed leb_size
C17_ReservationsAlignedAndApart ==
    /\ \A R \in {Reservations} : /\ \A i \in 1..Len(R) : InsideLeb(R[i])
                                 /\ NoOverlap(R)
    /\ head_offs % 8 = 0
    /\ head_offs >= 0
    /\ head_offs <= opts.leb_size

\* an odd-length node, a second node behind it in the same LEB, and a third
\* that did not fit and went to the next LEB behind a flush
C17_Witness ==
    \A R \in {Reservations} :
        /\ Len(R) = 3
        /\ R[1].len % 8 # 0
        /\ R[2].lnum = R[1].lnum /\ R[2].offs = ALIGN(R[1].len, 8)
        /\ R[3].lnum = R[1].lnum + 1 /\ R[3].offs = 0
        /\ head_offs = ALIGN(R[3].len, 8)
        /\ head_offs < R[3].len + 8

\* the last call was an explicit flush_nodes() that returned 0
FlushReturned0 == call.op = "flush_nodes" /\ err = 0

\* the last call was a reserve_space that returned 0 behind a flush
ReserveFlushed ==
    /\ call.op \in {"add_node", "add_idx_node"} /\ err = 0
    /\ call.arg > opts.leb_size - call.head_offs

\* one LEB went to the sink since the call, the LEB lnum
OneLebWritten(lnum) ==
    /\ Len(sink) = call.nsink + 1
    /\ sink[Len(sink)].lnum = lnum
    /\ sink[Len(sink)].len = opts.leb_size

\* the LEB lnum has an entry in c->lpt: it lies in the main area
InMain(lnum) == lnum - main_first < main_lebs

\* one record of LEB properties was made since the call, for the LEB lnum at
\* offs: its free space went to the ledger, and the one entry of c->lpt
\* written is the entry of lnum, which a LEB behind the main area has not
OneLpropsRecord(lnum, offs) ==
    /\ lst.total_free
       = call.lst.total_free + (opts.leb_size - ALIGN(offs, Max(opts.min_io_size, 8)))
    /\ DOMAIN lpt = DOMAIN call.lpt
    /\ \A i \in DOMAIN lpt :
          IF i = lnum - main_first THEN lpt[i].sets = call.lpt[i].sets + 1
          ELSE lpt[i] = call.lpt[i]

Flushed == FlushReturned0 \/ ReserveFlushed

\* what a flush at offs has to record: the free and the dirty space of the LEB
FreeAt(offs) == opts.leb_size - ALIGN(offs, Max(opts.min_io_size, 8))

DirtyAt(offs) == opts.leb_size - FreeAt(offs) - ALIGN(offs, 8)

SpcAt(offs) == FreeAt(offs) + DirtyAt(offs)

\* the entry of c->lpt the flush wrote
FlushedLprops == lpt[call.head_lnum - main_first]

\* the aggregates of the ledger behind a flush at offs of an LEB that is
\* not an index LEB
NonIndexTotals(offs) ==
    [call.lst EXCEPT !.total_free = @ + FreeAt(offs),
                     !.total_dirty = @ + DirtyAt(offs),
                     !.total_dead = IF SpcAt(offs) < dead_wm THEN @ + SpcAt(offs) ELSE @,
                     !.total_dark = IF SpcAt(offs) < dead_wm THEN @
                                    ELSE @ + calc_dark(SpcAt(offs)),
                     !.total_used = @ + (opts.leb_size - SpcAt(offs))]

\* the aggregates behind a flush at offs of an index LEB
IndexTotals(offs) ==
    [call.lst EXCEPT !.total_free = @ + FreeAt(offs),
                     !.total_dirty = @ + DirtyAt(offs),
                     !.idx_lebs = @ + 1]

\* C20: every flush records for the flushed LEB
\* free = leb_size - align(offs, max(min_io, 8)) and
\* dirty = leb_size - free - align(offs, 8), so that
\* 0 <= dirty < max(min_io, 8), 0 <= free <= leb_size and
\* free + dirty + align(offs, 8) = leb_size; both are added to total_free and
\* total_dirty; for a non-index LEB with spc = free + dirty, spc is added to
\* total_dead when spc < dead_wm and calc_dark(spc) to total_dark otherwise,
\* and leb_size - spc to total_used; for an index LEB idx_lebs is bumped.
\* free, dirty and the flags go to the entry the LEB has in c->lpt, which
\* has one entry per LEB of the main area
C20_FlushRecordsFreeAndDirty ==
    Flushed =>
        /\ InMain(call.head_lnum) => /\ FlushedLprops.free = FreeAt(call.head_offs)
                                     /\ FlushedLprops.dirty = DirtyAt(call.head_offs)
                                     /\ FlushedLprops.flags = head_flags
        /\ ~InMain(call.head_lnum) => lpt = call.lpt
        /\ 0 <= DirtyAt(call.head_offs)
        /\ DirtyAt(call.head_offs) < Max(opts.min_io_size, 8)
        /\ 0 <= FreeAt(call.head_offs)
        /\ FreeAt(call.head_offs) <= opts.leb_size
        /\ FreeAt(call.head_offs) + DirtyAt(call.head_offs) + ALIGN(call.head_offs, 8)
           = opts.leb_size
        /\ head_flags # LPROPS_INDEX => lst = NonIndexTotals(call.head_offs)
        /\ head_flags = LPROPS_INDEX => lst = IndexTotals(call.head_offs)

\* a flush of a data LEB with dirty space whose free and dirty space
\* together stay below dead_wm
C20_Witness ==
    /\ Flushed
    /\ head_flags # LPROPS_INDEX
    /\ DirtyAt(call.head_offs) > 0
    /\ SpcAt(call.head_offs) < dead_wm
    /\ InMain(call.head_lnum)
    /\ FlushedLprops.dirty = DirtyAt(call.head_offs)
    /\ lst.total_dead = call.lst.total_dead + SpcAt(call.head_offs)
    /\ lst.total_dark = call.lst.total_dark

\* further cases of C20 the runs come by: dark space a little above dark_wm,
\* dark space of dark_wm, dark space below dark_wm, an index LEB
C20_DarkAboveWm ==
    /\ Flushed /\ head_flags # LPROPS_INDEX
    /\ SpcAt(call.head_offs) >= dark_wm
    /\ SpcAt(call.head_offs) - dark_wm < MIN_WRITE_SZ
    /\ lst.total_dark = call.lst.total_dark + SpcAt(call.head_offs) - MIN_WRITE_SZ

C20_DarkWm ==
    /\ Flushed /\ head_flags # LPROPS_INDEX
    /\ SpcAt(call.head_offs) - dark_wm >= MIN_WRITE_SZ
    /\ lst.total_dark = call.lst.total_dark + dark_wm

C20_DarkBelowWm ==
    /\ Flushed /\ head_flags # LPROPS_INDEX
    /\ SpcAt(call.head_offs) >= dead_wm
    /\ SpcAt(call.head_offs) < dark_wm
    /\ lst.total_dark = call.lst.total_dark + SpcAt(call.head_offs)

C20_IndexLeb ==
    /\ Flushed /\ head_flags = LPROPS_INDEX
    /\ lst.idx_lebs = call.lst.idx_lebs + 1
    /\ lst.total_used = call.lst.total_used

C20_BehindMainArea ==
    /\ Flushed /\ ~InMain(call.head_lnum)
    /\ lst.total_free = call.lst.total_free + FreeAt(call.head_offs)

(***************************************************************************)
(* Directory sizes.                                                        *)
(***************************************************************************)
\* the directory entry nodes of the directory inum
DentsOf(nodes, inum) == {d \in OfType(nodes, "dent") : d.f.key[1] = inum}

\* the sum over the entry nodes D of ALIGN(UBIFS_DENT_NODE_SZ + nlen + 1, 8)
RECURSIVE DentSizes(_)
DentSizes(D) ==
    IF D = {} THEN 0
    ELSE LET d == CHOOSE x \in D : TRUE
         IN ALIGN(UBIFS_DENT_NODE_SZ + d.f.nlen + 1, 8) + DentSizes(D \ {d})

DirInodes(nodes) == {n \in OfType(nodes, "ino") : n.f.mode = "dir"}

\* C21 as stated: the size of a directory's inode is the sum over the
\* entries emitted into it of align(DENT_NODE_SZ + name_len + 1, 8), and 0
\* for a directory without entries
C21_DirSizeIsEntrySum ==
    Built => \A N \in {ImageNodes} : \A n \in DirInodes(N) :
                 n.f.size = DentSizes(DentsOf(N, InoInum(n)))

\* C21 amended: the size of a directory's inode is UBIFS_INO_NODE_SZ plus
\* the sum over the entries emitted into it (host entries and device-table
\* entries) of align(DENT_NODE_SZ + name_len + 1, 8); a directory without
\* entries has size UBIFS_INO_NODE_SZ
C21_DirSizeIsInoNodePlusEntrySum ==
    Built => \A N \in {ImageNodes} : \A n \in DirInodes(N) :
                 n.f.size = UBIFS_INO_NODE_SZ + DentSizes(DentsOf(N, InoInum(n)))

\* a built image with directories that take entries from the device table
C21_DevTable ==
    /\ Built
    /\ opts.root = Root(DevTree)
    /\ \A N \in {ImageNodes} :
          \E n \in DirInodes(N) : /\ InoInum(n) = UBIFS_ROOT_INO
                                   /\ Cardinality(DentsOf(N, InoInum(n))) = 3
                                   /\ n.f.size = UBIFS_INO_NODE_SZ + 3 * 64

\* a built image with a directory without entries and a directory with
\* entries whose names differ in length
C21_Witness ==
    /\ Built
    /\ opts.root = Root(SmallTree)
    /\ \A N \in {ImageNodes} :
          /\ \E n \in DirInodes(N) : /\ DentsOf(N, InoInum(n)) = {}
                                     /\ n.f.size = UBIFS_INO_NODE_SZ
          /\ \E n \in DirInodes(N) : /\ Cardinality(DentsOf(N, InoInum(n))) >= 3
                                     /\ n.f.size > UBIFS_INO_NODE_SZ

(***************************************************************************)
(* The order of a directory and what lies under it.                        *)
(***************************************************************************)
Keyed(nodes) == {n \in nodes : n.type \in {"ino", "data", "dent", "xent"}}

\* the inodes the entries of the directories D name
Children(nodes, D) == {d.f.inum : d \in {x \in OfType(nodes, "dent") : x.f.key[1] \in D}}

\* D with everything below it
RECURSIVE Closure(_, _)
Closure(nodes, D) ==
    IF Children(nodes, D) \subseteq D THEN D ELSE Closure(nodes, D \cup Children(nodes, D))

\* the inodes of the extended attributes of the inodes I
XattrInums(nodes, I) == {x.f.inum : x \in {x \in OfType(nodes, "xent") : x.f.key[1] \in I}}

\* the inodes under the directory d, its own extended attributes included
InumsUnder(nodes, d) ==
    Closure(nodes, Children(nodes, {d}))
    \cup XattrInums(nodes, {d} \cup Closure(nodes, Children(nodes, {d})))

\* the nodes emitted under the directory whose inode node is n
NodesUnder(nodes, n) ==
    {u \in Keyed(nodes) : u.f.key[1] \in InumsUnder(nodes, InoInum(n)) \cup {InoInum(n)}}
    \ {n}

\* the inodes add_non_dir put off to add_multi_linked_files, with the
\* inodes of their extended attributes
PutOff(nodes) ==
    {hash_table[i].use_inum : i \in 1..Len(hash_table)}
    \cup XattrInums(nodes, {hash_table[i].use_inum : i \in 1..Len(hash_table)})

\* write_data has returned 0: all nodes but those of the index are in the
\* image, and the table of files with several links is still there
DataWritten == pc = "set_gc_lnum" /\ err = 0

\* creat_sqnum of the directory inode n lies before the node u
CreatBefore(n, u) ==
    /\ n.f.creat_sqnum < u.sqnum
    /\ u.type = "ino" => n.f.creat_sqnum < u.f.creat_sqnum

\* C22 as stated: once write_data has returned 0, the inode node of a directory is emitted after all nodes
\* of its children, recursively, and its creat_sqnum is smaller than the
\* sqnum and the creat_sqnum of every node emitted under the directory
C22_DirInodeBehindAllBelow ==
    DataWritten => \A N \in {Keyed(ImageNodes)} : \A n \in DirInodes(N) :
                 \A u \in NodesUnder(N, n) : u.sqnum < n.sqnum /\ CreatBefore(n, u)

\* C22 amended: once write_data has returned 0, the inode node of a directory is emitted after all nodes of
\* its children, recursively, but for the inode, data and extended attribute
\* nodes of files with more than one link on the host, which are emitted
\* behind the inode of the root directory; its creat_sqnum is smaller than
\* the sqnum and the creat_sqnum of every node emitted under the directory
C22_DirInodeBehindAllButLinks ==
    DataWritten => \A N \in {Keyed(ImageNodes)} : \A n \in DirInodes(N) :
                 \A u \in NodesUnder(N, n) :
                    /\ CreatBefore(n, u)
                    /\ IF u.type \in {"ino", "data", "xent"} /\ u.f.key[1] \in PutOff(N)
                       THEN \A r \in DirInodes(N) : r.sqnum < u.sqnum
                       ELSE u.sqnum < n.sqnum

\* a built image with a directory in a directory, a file with extended
\* attributes under it, and the creat_sqnum of the root below all of them
C22_Witness ==
    /\ DataWritten
    /\ opts.root = Root(SmallTree)
    /\ \A N \in {Keyed(ImageNodes)} :
          \E n \in DirInodes(N) :
             /\ InoInum(n) = UBIFS_ROOT_INO
             /\ \E u \in DirInodes(N) : u \in NodesUnder(N, n) /\ NodesUnder(N, u) # {}
             /\ \E u \in OfType(N, "xent") : u \in NodesUnder(N, n)
             /\ \A u \in NodesUnder(N, n) : u.sqnum < n.sqnum /\ n.f.creat_sqnum < u.sqnum

\* a built image with files of several links, emitted behind the root
C22_LinksBehindRoot ==
    /\ DataWritten
    /\ opts.root = Root(LinkTree)
    /\ \A N \in {Keyed(ImageNodes)} :
          \E n \in DirInodes(N) : \E u \in NodesUnder(N, n) :
             u.type = "ino" /\ InoInum(u) \in PutOff(N) /\ u.sqnum > n.sqnum

(***************************************************************************)
(* write_index over a leaf list: the head stands behind the GC LEB, and    *)
(* the list is what add_to_index has collected.                            *)
(***************************************************************************)
\* the leaf counts from 1 up
MaxLeaves == 17

IndexConfigs ==
    {[DfltOpts EXCEPT !.fanout = f, !.hash_len = h]
       : f \in UBIFS_MIN_FANOUT..MaxFanout, h \in {0, 64}}

\* a sink that takes every LEB, or fails at one of the first three
IndexEnvs == {[QuietEnv EXCEPT !.failAt = a] : a \in 0..3}

\* the i-th leaf of a file of data nodes of 72 bytes each, in the first LEB
\* of the main area
DataLeaf(i) ==
    IdxEntry(data_key_init(UBIFS_FIRST_INO + 1, i - 1), NULL, 0, MainFirst, 72 * (i - 1), 72,
             IF opts.hash_len > 0 THEN i ELSE 0)

\* the i-th leaf of a directory: the entry of the name, which shares its key
\* with the entries of the names of the same hash
DentLeaf(i, name) ==
    IdxEntry(dent_key_init(UBIFS_ROOT_INO, name), name, Len(name), MainFirst, 72 * (i - 1),
             UBIFS_DENT_NODE_SZ + Len(name) + 1, IF opts.hash_len > 0 THEN i ELSE 0)

DataLeaves(n) == <<>> \o [i \in 1..n |-> DataLeaf(i)]

\* names in the order readdir hands them out: <<14>> and <<1>> share a
\* hash, and so do <<1, 13>> and <<1>>
DentNames == <<<<14>>, <<2>>, <<1, 13>>, <<1>>, <<3, 3>>>>

DentLeaves == <<>> \o [i \in 1..Len(DentNames) |-> DentLeaf(i, DentNames[i])]

\* lists no build collects: the same name twice in a directory, the same
\* block twice in a file; cmp_idx does not order the two entries, and the
\* sort may leave them either way round, which the two lists for the name
\* give it to do
TwiceNamed == DentLeaves \o <<DentLeaf(Len(DentNames) + 1, <<2>>)>>

TwiceNamedFirst == <<DentLeaf(Len(DentNames) + 1, <<2>>)>> \o DentLeaves

TwiceKeyed == DataLeaves(4) \o <<[DataLeaf(2) EXCEPT !.offs = 72 * 4]>>

\* so many leaves that the root index node is the first node of the second
\* index LEB when fanout is 4 and the nodes carry hashes
RootWrapLeaves == 2 * MaxFanout * MaxFanout * MaxFanout - 2

LeafLists ==
    {DataLeaves(n) : n \in 1..MaxLeaves}
    \cup {DataLeaves(RootWrapLeaves), DentLeaves, TwiceNamed, TwiceNamedFirst,
          TwiceKeyed}

\* the builder behind set_gc_lnum, the leaf list as given
BeforeIndex(e, list) ==
    [init(Start(e)) EXCEPT !.idx_list = list, !.leaves = list,
                           !.gc_lnum = MainFirst + 1, !.head_lnum = MainFirst + 2,
                           !.max_sqnum = Len(list)]

InitIndex ==
    /\ opts \in IndexConfigs
    /\ env \in IndexEnvs
    /\ pc = "write_index" /\ err = 0 /\ stages = <<>> /\ call = NoCall
    /\ \E list \in LeafLists : Holds(BeforeIndex(env, list))

\* mkfs(): err = write_index(); call keeps the leaf list
index_write_index ==
    /\ pc = "write_index"
    /\ Becomes(write_index(G))
    /\ err' = write_index(G).ret
    /\ pc' = IF write_index(G).ret # 0 THEN "out" ELSE "finalize_leb_cnt"
    /\ stages' = Append(stages, "write_index")
    /\ call' = [op |-> "write_index", arg |-> idx_list]

NextIndex == index_write_index

SpecIndex == InitIndex /\ [][NextIndex]_vars

\* ceil(n / fanout)
RowOver(n) == (n + opts.fanout - 1) \div opts.fanout

\* the number of index nodes of the level in S
RowLen(S, level) == Cardinality({k \in 1..Len(S) : S[k].node.f.level = level})

\* the number of entries of the row below the level: leaves below level 0
BelowLen(S, level, nleaves) == IF level = 0 THEN nleaves ELSE RowLen(S, level - 1)

\* the row of the level in S: ceil(below / fanout) nodes, all of them with
\* fanout children but the last, which has the rest
RowFull(S, level, nleaves) ==
    /\ RowLen(S, level) = RowOver(BelowLen(S, level, nleaves))
    /\ \A k \in RowStart(S, level)..(RowStart(S, level) + RowLen(S, level) - 1) :
          /\ S[k].node.f.level = level
          /\ S[k].node.f.child_cnt =
                IF k < RowStart(S, level) + RowLen(S, level) - 1 THEN opts.fanout
                ELSE BelowLen(S, level, nleaves) - opts.fanout * (RowLen(S, level) - 1)
          /\ S[k].node.f.child_cnt \in 1..opts.fanout

\* the index S over nleaves leaves: full rows from level 0 up to a row of one
\* node, the last node written, whose place is zroot
RowsUpToRoot(S, nleaves) ==
    /\ Len(S) >= 1
    /\ \A level \in 0..S[Len(S)].node.f.level : RowFull(S, level, nleaves)
    /\ RowLen(S, S[Len(S)].node.f.level) = 1
    /\ zroot = Pos(S[Len(S)])
    /\ S[Len(S)].node.f.level > 0 <=> nleaves > opts.fanout

\* C23: write_index returns for every leaf count from 1 up and every fanout
\* from UBIFS_MIN_FANOUT up, and when it has returned 0 each row has
\* ceil(row below / fanout) nodes, all with fanout children but the last,
\* which has between 1 and fanout; the top row has one node, zroot is its
\* place, it is the last index node written, and its level is above 0
\* exactly when there are more leaves than fanout
C23_RowsUpToRoot ==
    (pc = "finalize_leb_cnt" /\ err = 0)
       => \A S \in {IdxSeq} : RowsUpToRoot(S, Len(leaves))

\* the same for the runs in which no write of the sink has failed
C23_UnlessSinkFailed ==
    (pc = "finalize_leb_cnt" /\ err = 0 /\ nwrites = Len(sink))
       => \A S \in {IdxSeq} : RowsUpToRoot(S, Len(leaves))

\* an index of one node, and an index of three rows with a short last node
\* in the bottom row, all LEBs written
C23_OneNode ==
    /\ pc = "finalize_leb_cnt" /\ err = 0 /\ nwrites = Len(sink)
    /\ Len(leaves) = 1
    /\ \A S \in {IdxSeq} : Len(S) = 1 /\ RowsUpToRoot(S, 1) /\ S[1].node.f.level = 0

C23_ThreeRows ==
    /\ pc = "finalize_leb_cnt" /\ err = 0 /\ nwrites = Len(sink)
    /\ \A S \in {IdxSeq} :
          /\ RowsUpToRoot(S, Len(leaves))
          /\ S[Len(S)].node.f.level = 2
          /\ Len(leaves) % opts.fanout # 0

\* the root index node went lost with the LEB write that failed, and
\* write_index has returned 0 with zroot at a node of the row below
C23_RootLost ==
    /\ pc = "finalize_leb_cnt" /\ err = 0 /\ nwrites > Len(sink)
    /\ Len(leaves) = RootWrapLeaves
    /\ \A S \in {IdxSeq} : Len(S) >= 1 /\ zroot = Pos(S[Len(S)])
                           /\ RowLen(S, S[Len(S)].node.f.level) > 1

\* two entries of the list with equal keys and equal name bytes (nameless
\* entries have no name bytes)
Twice(list, i, j) ==
    /\ i # j
    /\ keys_cmp(list[i].key, list[j].key) = 0
    /\ list[i].name_len = list[j].name_len
    /\ list[i].name = list[j].name

HasTwice(list) == \E i, j \in 1..Len(list) : Twice(list, i, j)

\* cmp_idx orders the two entries: one of them goes first whichever is asked
StrictlyOrdered(e1, e2) ==
    /\ cmp_idx(e1, e2) # 0
    /\ cmp_idx(e1, e2) < 0 <=> cmp_idx(e2, e1) > 0

\* the branches of the level 0 index nodes of S, in flash order
RECURSIVE RowBranches(_, _)
RowBranches(S, k) ==
    IF k > Len(S) \/ S[k].node.f.level # 0 THEN <<>>
    ELSE S[k].node.f.branches \o RowBranches(S, k + 1)

C24_OthersStrictlyOrdered ==
    pc # "write_index" =>
       \A i, j \in 1..Len(leaves) :
          (i # j /\ ~Twice(leaves, i, j)) => StrictlyOrdered(leaves[i], leaves[j])

C24_TwinBlocksWritten ==
    /\ pc = "finalize_leb_cnt" /\ err = 0
    /\ leaves = TwiceKeyed
    /\ Len(RowBranches(IdxSeq, 1)) = Len(leaves)

\* names with one hash, ordered by their bytes and then by their lengths
C24_SharedHashOrdered ==
    /\ pc = "finalize_leb_cnt" /\ err = 0
    /\ leaves = DentLeaves
    /\ \E i, j \in 1..Len(leaves) :
          /\ i # j
          /\ keys_cmp(leaves[i].key, leaves[j].key) = 0
          /\ memcmp(leaves[i].name, leaves[j].name, 1,
                    Min(leaves[i].name_len, leaves[j].name_len)) = 0
          /\ StrictlyOrdered(leaves[i], leaves[j])

(***************************************************************************)
(* The holes of a file.                                                    *)
(***************************************************************************)
\* the regular files of the root directory of the source tree
TopRegs ==
    {opts.root.dir.entries[i] :
       i \in {i \in 1..Len(opts.root.dir.entries) : opts.root.dir.entries[i].mode = "reg"}}

\* the nodes of a type among the nodes N of the file the root directory
\* lists under name
NodesOfFile(N, type, name) ==
    {n \in OfType(N, type) :
       \E d \in OfType(N, "dent") :
          d.f.key[1] = UBIFS_ROOT_INO /\ d.f.name = name /\ d.f.inum = n.f.key[1]}

\* the data nodes D and the inode nodes I of the file e: the data nodes are
\* those of its blocks that are not all zero, one each, under the key of the
\* block's place in the file, and the inode has the size that was read
HolesSkipped(e, D, I) ==
    /\ Cardinality(D) = Cardinality(NonHoles(e))
    /\ \A i \in 1..Len(e.blocks) :
          (\E n \in D : n.f.key[3] = i - 1) <=> ~e.blocks[i].zero
    /\ \A n \in D : \A ino \in I : n.f.key = data_key_init(InoInum(ino), n.f.key[3])
    /\ Cardinality(I) = 1
    /\ \A ino \in I : ino.f.size = FileSize(e.blocks)
    /\ NonHoles(e) = {} => D = {}

\* the data node n lies within the size of its inode, rounded up to blocks
WithinSize(n, I) ==
    n.f.key[3] * UBIFS_BLOCK_SIZE < ALIGN(I.f.size, UBIFS_BLOCK_SIZE)

\* C25: a regular file has a data node for block b exactly when block b has
\* a byte that is not zero, under the key data_key(inum, b) with b counting
\* the all-zero blocks skipped before it, and its inode's size is the number
\* of bytes read; a file of zeros alone has no data node, and every data
\* node of an inode I at block B has B * UBIFS_BLOCK_SIZE below I's size
\* rounded up to a multiple of UBIFS_BLOCK_SIZE
C25_HolesSkippedAndCounted ==
    (Built /\ opts.root.present) =>
       \A N \in {ImageNodes} :
          /\ \A e \in TopRegs :
                HolesSkipped(e, NodesOfFile(N, "data", e.name), NodesOfFile(N, "ino", e.name))
          /\ \A I \in {OfType(N, "ino")} :
                \A n \in OfType(N, "data") :
                   /\ \E ino \in I : InoInum(ino) = n.f.key[1]
                   /\ \A ino \in I : InoInum(ino) = n.f.key[1] => WithinSize(n, ino)

\* files of zeros alone, of one block and of a block and a byte, and a file
\* whose only data node is that of block 1, behind a hole
C25_Witness ==
    /\ Built /\ opts.root.present
    /\ \E e \in TopRegs :
          /\ Len(e.blocks) = 2 /\ NonHoles(e) = {} /\ DataNodesOf(e.name) = {}
          /\ \E I \in NodesOfFile(ImageNodes, "ino", e.name) : I.f.size = UBIFS_BLOCK_SIZE + 1
    /\ \E e \in TopRegs :
          /\ NonHoles(e) = {2}
          /\ \E n \in DataNodesOf(e.name) : n.f.key[3] = 1 /\ n.f.size = 1
          /\ Cardinality(DataNodesOf(e.name)) = 1

\* a file with hard links, and a file of no bytes
C25_LinkedFile ==
    /\ Built /\ opts.root.present
    /\ \A N \in {ImageNodes} :
          /\ \E e \in TopRegs :
                /\ e.nlink > 1
                /\ NodesOfFile(N, "data", e.name) # {}
                /\ HolesSkipped(e, NodesOfFile(N, "data", e.name), NodesOfFile(N, "ino", e.name))
          /\ \E e \in TopRegs :
                /\ e.blocks = <<>>
                /\ HolesSkipped(e, NodesOfFile(N, "data", e.name), NodesOfFile(N, "ino", e.name))

(***************************************************************************)
(* The superblock LEB.                                                     *)
(***************************************************************************)
\* write_super has returned 0 and mkfs() has gone no further
SuperWritten == pc = "write_log" /\ err = 0

\* the nodes prepared since the last master node was: those of write_super
LastMst == CHOOSE k \in 1..Len(prepared) :
              /\ prepared[k].type = "mst"
              /\ \A j \in 1..Len(prepared) : prepared[j].type = "mst" => j <= k

BySuper == SubSeq(prepared, LastMst + 1, Len(prepared))

\* the nodes of a type that lie behind the superblock node in LEB 0
BehindSuper(type) ==
    {n \in OfType(NodesIn(LebImage(UBIFS_SB_LNUM)), type) :
       \E k \in 1..Len(LebImage(UBIFS_SB_LNUM)) :
          /\ LebImage(UBIFS_SB_LNUM)[k].offs = UBIFS_SB_NODE_SZ
          /\ LebImage(UBIFS_SB_LNUM)[k].node = n}

Authenticated == opts.hash_len > 0

\* C26: LEB 0 holds a signature node behind the superblock node if and only
\* if authentication is enabled; without authentication write_super
\* prepares one node, the superblock node, and takes one sequence number
C26_OneNodeUnlessAuthenticated ==
    SuperWritten =>
       /\ BehindSuper("sig") # {} <=> Authenticated
       /\ ~Authenticated =>
             /\ Len(BySuper) = 1
             /\ BySuper[1].type = "sb"
             /\ max_sqnum = prepared[LastMst].sqnum + 1

\* the part of it that holds: a node of the signature type lies behind the
\* superblock node exactly in the authenticated images
C26_SigNodeIffAuthenticated ==
    SuperWritten => (BehindSuper("sig") # {} <=> Authenticated)

\* what write_super does in either case: two nodes prepared, two sequence
\* numbers taken, the second node UBIFS_SIG_NODE_SZ bytes and the signature
\* behind the superblock node
C26_TwoNodesPrepared ==
    SuperWritten =>
       /\ Len(BySuper) = 2
       /\ BySuper[1].type = "sb" /\ BySuper[1].len = UBIFS_SB_NODE_SZ
       /\ BySuper[2].len = UBIFS_SIG_NODE_SZ + SigLen
       /\ BySuper[2].sqnum = BySuper[1].sqnum + 1
       /\ max_sqnum = prepared[LastMst].sqnum + 2
       /\ BySuper[2] \in BehindSuper(IF Authenticated THEN "sig" ELSE "blank")

\* an image without authentication with the header of a second node behind
\* the superblock node, and an authenticated image with its signature node
C26_BlankNodeWritten ==
    /\ SuperWritten /\ ~Authenticated
    /\ \E n \in BehindSuper("blank") : n.sqnum = max_sqnum /\ n.len = UBIFS_SIG_NODE_SZ

C26_SignatureWritten ==
    /\ SuperWritten /\ Authenticated
    /\ \E n \in BehindSuper("sig") : n.sqnum = max_sqnum

(***************************************************************************)
(* The bytes of the LEBs of the head.                                      *)
(***************************************************************************)
\* the writes of the sink to the LEBs from the main area on
MainWrites == {i \in 1..Len(sink) : sink[i].lnum >= main_first}

\* the reservations made in the LEB lnum
ReservedIn(lnum) ==
    {Reservations[k] : k \in {k \in 1..Len(Reservations) : Reservations[k].lnum = lnum}}

\* where the head stood in the LEB lnum when it was flushed: behind the last
\* reservation
HeadEnd(lnum) ==
    IF ReservedIn(lnum) = {} THEN 0
    ELSE CHOOSE h \in {r.offs + ALIGN(r.len, 8) : r \in ReservedIn(lnum)} :
            \A r \in ReservedIn(lnum) : r.offs + ALIGN(r.len, 8) <= h

\* the segment of the LEB lnum is a node at the place reserved for it in this
\* LEB, the padding from the head to the next min. I/O unit, or 0xFF
SegReserved(lnum, seg) ==
    \/ seg.kind = "ff"
    \/ /\ seg.kind = "pad"
       /\ seg.offs = HeadEnd(lnum)
       /\ seg.offs + seg.len = ALIGN(HeadEnd(lnum), opts.min_io_size)
    \/ /\ WholeNode(seg)
       /\ \E r \in ReservedIn(lnum) : r.offs = seg.offs /\ r.len = seg.len

\* the sequence numbers of the nodes of which the buffer holds a byte
SqnumsIn(buf) == {buf[k].node.sqnum : k \in {k \in 1..Len(buf) : buf[k].kind = "node"}}

\* the reservations of a LEB are made one behind the other, none of them
\* once a later LEB has had one
ReservedInTurn ==
    \A j, k \in 1..Len(Reservations) :
       j < k => Reservations[j].lnum <= Reservations[k].lnum

\* C27: every byte of a LEB of the main area handed to the sink is a byte of
\* a node reserved in that LEB since the flush before, of the padding
\* between the head and the next multiple of the min. I/O unit, or 0xFF; no
\* byte of an earlier LEB is left in the buffer, and the buffer handed over
\* is leb_size bytes
C27_OnlyReservedBytes ==
    /\ \A i \in MainWrites :
          /\ sink[i].len = opts.leb_size
          /\ BufLen(sink[i].buf) = opts.leb_size
          /\ \A k \in 1..Len(sink[i].buf) : SegReserved(sink[i].lnum, sink[i].buf[k])
          /\ \A j \in MainWrites : j # i =>
                /\ sink[j].lnum # sink[i].lnum
                /\ SqnumsIn(sink[j].buf) \cap SqnumsIn(sink[i].buf) = {}
    /\ ReservedInTurn

\* a LEB of one short node behind a LEB of a long one: where the long node
\* lay in the buffer, the second LEB is padding and 0xFF
C27_Witness ==
    /\ Len(sink) >= 2
    /\ {1, 2} \subseteq MainWrites
    /\ sink[2].lnum = sink[1].lnum + 1
    /\ Cardinality(SqnumsIn(sink[2].buf)) = 1
    /\ HeadEnd(sink[2].lnum) < HeadEnd(sink[1].lnum)
    /\ \E k \in 1..Len(sink[2].buf) :
          /\ sink[2].buf[k].kind = "ff"
          /\ sink[2].buf[k].offs = ALIGN(HeadEnd(sink[2].lnum), opts.min_io_size)
          /\ sink[2].buf[k].offs < HeadEnd(sink[1].lnum)
          /\ sink[2].buf[k].offs + sink[2].buf[k].len = opts.leb_size

\* padding of more than 8 bytes, and the empty LEB of the garbage collector
C27_Padded ==
    \E i \in MainWrites : \E k \in 1..Len(sink[i].buf) :
       sink[i].buf[k].kind = "pad" /\ sink[i].buf[k].len > 8

C27_EmptyLeb ==
    \E i \in MainWrites : i > 1 /\ SqnumsIn(sink[i].buf) = {} /\ Len(sink[i].buf) = 1

(***************************************************************************)
(* Leaf LEBs and index LEBs.                                               *)
(***************************************************************************)
\* write_index has returned 0 and mkfs() has gone no further
IndexWritten == pc = "finalize_leb_cnt" /\ err = 0

\* the LEBs from the main area on that went to the sink before and behind
\* the LEB of the garbage collector: those write_data and those write_index
\* flushed
DataLebs == {sink[i].lnum : i \in {i \in MainWrites : sink[i].lnum < gc_lnum}}

IndexLebs == {sink[i].lnum : i \in {i \in MainWrites : sink[i].lnum > gc_lnum}}

\* the flags in the entry of the LEB lnum in c->lpt, for the LEBs that have
\* one
FlaggedAs(lnum, flags) == InMain(lnum) => lpt[lnum - main_first].flags = flags

\* the entries of c->lpt with the flag LPROPS_INDEX
IndexFlagged == {i \in DOMAIN lpt : lpt[i].flags = LPROPS_INDEX}

\* C28: no LEB of the main area holds leaf nodes and index nodes: every LEB
\* write_data flushed is recorded with the flags 0 and every LEB write_index
\* flushed with LPROPS_INDEX, the head offset is 0 when write_index starts,
\* and idx_lebs is the number of LEBs flagged LPROPS_INDEX
C28_LeafAndIndexLebsApart ==
    /\ pc = "write_index" => head_offs = 0
    /\ IndexWritten =>
          /\ \A l \in DataLebs :
                /\ OfType(NodesIn(LebImage(l)), "idx") = {}
                /\ FlaggedAs(l, 0)
          /\ \A l \in IndexLebs :
                /\ NodesIn(LebImage(l)) = OfType(NodesIn(LebImage(l)), "idx")
                /\ FlaggedAs(l, LPROPS_INDEX)
          /\ lst.idx_lebs = Cardinality(IndexLebs)
          /\ head_lnum <= main_first + main_lebs
                => lst.idx_lebs = Cardinality(IndexFlagged)

\* a leaf LEB and two index LEBs with their entries in c->lpt
C28_Witness ==
    /\ IndexWritten
    /\ DataLebs # {}
    /\ Cardinality(IndexLebs) = 2
    /\ lst.idx_lebs = Cardinality(IndexFlagged)
    /\ \A l \in DataLebs : NodesIn(LebImage(l)) # {} /\ lpt[l - main_first].flags = 0
    /\ \A l \in IndexLebs : NodesIn(LebImage(l)) # {}
                            /\ lpt[l - main_first].flags = LPROPS_INDEX

\* several leaf LEBs and an index LEB
C28_ManyLeafLebs ==
    /\ IndexWritten
    /\ Cardinality(DataLebs) > 2
    /\ Cardinality(IndexLebs) = 1
    /\ \A l \in DataLebs \cup IndexLebs : InMain(l)

\* index LEBs behind the main area, which have no entry in c->lpt
C28_IndexBehindMainArea ==
    /\ IndexWritten
    /\ \E l \in IndexLebs : ~InMain(l)
    /\ lst.idx_lebs > Cardinality(IndexFlagged)

(***************************************************************************)
(* The LEB count limit.                                                    *)
(***************************************************************************)
\* the writes of the sink to LEBs from max_leb_cnt on
BeyondLimit == {i \in 1..Len(sink) : sink[i].lnum >= opts.max_leb_cnt}

\* C29: no LEB with a number of max_leb_cnt or more is handed to the sink,
\* in the builds that end with the max_leb_cnt error either: the limit is
\* enforced before a LEB beyond it is written
C29_NoLebBeyondLimit == BeyondLimit = {}

\* C29 amended: the head writes the LEBs of the main area without a look at
\* max_leb_cnt, and the limit is enforced by finalize_leb_cnt alone, behind
\* write_index: a LEB of max_leb_cnt or more can go to the sink, and a build
\* in which one did ends with an error, that of finalize_leb_cnt unless a
\* stage before failed; the LEBs of a build that returns 0 are all below
\* leb_cnt, which is at most max_leb_cnt
C29_LimitEnforcedByFinalize ==
    /\ BeyondLimit # {} =>
          /\ ~Returned0("finalize_leb_cnt")
          /\ head_lnum > opts.max_leb_cnt \/ pc \in {"out", "exit"}
          /\ pc \in {"out", "exit"} => err # 0
          /\ \A i \in BeyondLimit : i \in MainWrites
    /\ Returned0("finalize_leb_cnt") =>
          /\ leb_cnt <= opts.max_leb_cnt
          /\ \A i \in 1..Len(sink) : sink[i].lnum < leb_cnt

\* a build that ended with the error of finalize_leb_cnt, LEBs beyond
\* max_leb_cnt written
C29_Witness ==
    /\ pc = "exit" /\ err # 0
    /\ stages[Len(stages)] = "finalize_leb_cnt"
    /\ leb_cnt > opts.max_leb_cnt
    /\ \E i \in BeyondLimit : sink[i].lnum >= opts.max_leb_cnt /\ sink[i].len = opts.leb_size
    /\ nwrites = Len(sink)

\* a build that fills the volume to the last LEB and returns 0
C29_VolumeFull ==
    /\ Built
    /\ leb_cnt = opts.max_leb_cnt
    /\ \E i \in 1..Len(sink) : sink[i].lnum = opts.max_leb_cnt - 1

(***************************************************************************)
(* The LEB properties of a finished build.                                 *)
(***************************************************************************)
\* every stage of mkfs() has returned 0 and c->lpt is not yet freed
AllStagesDone == pc = "out" /\ err = 0

\* the entries of c->lpt of the LEBs main_first .. leb_cnt - 1
UsedLprops == 0..(leb_cnt - main_first - 1)

\* the sum of a field over the entries lo..hi of c->lpt, by halves
RECURSIVE SumFree(_, _)
SumFree(lo, hi) ==
    IF lo > hi THEN 0
    ELSE IF lo = hi THEN lpt[lo].free
    ELSE SumFree(lo, (lo + hi) \div 2) + SumFree((lo + hi) \div 2 + 1, hi)

RECURSIVE SumDirty(_, _)
SumDirty(lo, hi) ==
    IF lo > hi THEN 0
    ELSE IF lo = hi THEN lpt[lo].dirty
    ELSE SumDirty(lo, (lo + hi) \div 2) + SumDirty((lo + hi) \div 2 + 1, hi)

\* the entry i was written by the flush of a leaf LEB, for the GC LEB, or by
\* the flush of an index LEB
SetBy(i) ==
    IF main_first + i < gc_lnum THEN "write_data"
    ELSE IF main_first + i = gc_lnum THEN "set_gc_lnum"
    ELSE "write_index"

\* C30: in every build that returns 0 each LEB of the main area from
\* main_first up to leb_cnt has had its entry in c->lpt set once, by a data
\* flush, for the GC LEB or by an index flush, and the total_free and
\* total_dirty of the master node are the sums of the free and the dirty
\* space of these entries
C30_LpropsSetOnceAndSummed ==
    AllStagesDone =>
       /\ main_lebs = leb_cnt - main_first
       /\ UsedLprops \subseteq DOMAIN lpt
       /\ \A i \in UsedLprops :
             /\ lpt[i].sets = 1
             /\ lpt[i].flags = IF SetBy(i) = "write_index" THEN LPROPS_INDEX ELSE 0
             /\ SetBy(i) = "set_gc_lnum" => lpt[i].free = opts.leb_size /\ lpt[i].dirty = 0
             /\ lpt[i].free >= 0 /\ lpt[i].dirty >= 0
       /\ \A i \in DOMAIN lpt \ UsedLprops : lpt[i].sets = 0
       /\ MstNodes # {}
       /\ \A m \in MstNodes :
             /\ m.f.total_free = SumFree(0, leb_cnt - main_first - 1)
             /\ m.f.total_dirty = SumDirty(0, leb_cnt - main_first - 1)
             /\ m.f.total_free = lst.total_free
             /\ m.f.total_dirty = lst.total_dirty

\* a build with several leaf LEBs, the GC LEB and an index LEB
C30_Witness ==
    /\ AllStagesDone
    /\ Cardinality(UsedLprops) >= 4
    /\ gc_lnum > main_first + 1
    /\ \A i \in UsedLprops : lpt[i].sets = 1
    /\ \E i \in UsedLprops : lpt[i].free \in 1..(opts.leb_size - 1)
    /\ \A m \in MstNodes :
          /\ m.f.total_free = SumFree(0, leb_cnt - main_first - 1)
          /\ m.f.total_free > opts.leb_size

\* a build with dirty space in its LEBs
C30_DirtySpace ==
    /\ AllStagesDone
    /\ \E i, j \in UsedLprops : i # j /\ lpt[i].dirty > 0 /\ lpt[j].dirty > 0
    /\ \A m \in MstNodes :
          /\ m.f.total_dirty = SumDirty(0, leb_cnt - main_first - 1)
          /\ m.f.total_dirty > 0

\* a build in which a write of an index LEB failed and was made again
C30_FlushMadeAgain ==
    /\ AllStagesDone
    /\ nwrites > Len(sink)
    /\ Cardinality({i \in UsedLprops : SetBy(i) = "write_index"}) >= 2

\* a build that fills the volume: every entry of c->lpt is used
C30_EveryEntryUsed ==
    /\ AllStagesDone
    /\ UsedLprops = DOMAIN lpt

====
